---- MODULE Spec2Model ----
(***************************************************************************)
(* State-machine model of the dotlineform page generator                   *)
(* (scripts/generate_work_pages.py).  One run of main() is the sequence    *)
(* StartRun, WorkRow*, WorksSave, SeriesRow*, SeriesSave, SeriesJson,      *)
(* DetailsSetup, DetailRow*, DetailsSave, WorkJson, MomentRow*,            *)
(* MomentsSave, Finish.  The workbook on disk, the live cells of the       *)
(* loaded workbook and the output tree are the state.                      *)
(*                                                                         *)
(* Abstractions: a canonical work_id "0000i" is the number i; a blake2b    *)
(* digest of canonical JSON is the canonical payload itself (collision     *)
(* free: equal digests iff equal payloads, dict keys unordered, lists      *)
(* ordered); a Markdown page is the record of its front matter and body.   *)
(***************************************************************************)
EXTENDS Integers, Sequences, FiniteSets, TLC

\* ---------------------------------------------------------------- bounds
NumWorks == 2
NumSeries == 2
NumDetails == 2
NumMoments == 1
MaxRuns == 2

WorkRows == 1..NumWorks
SeriesRows == 1..NumSeries
DetailRows == 1..NumDetails
MomentRows == 1..NumMoments

\* ------------------------------------------------- the workbook fixture
\* Static cells of the sheets (never written by the scripts).
WorkIdOf(i) == i
SeriesIdOfWork(i) == ((i - 1) % NumSeries) + 1
WorkTitle(i) == <<"work title", i>>
WorksPrint(i) == IF i = 1 THEN "yes" ELSE ""
Download(i) == IF i = 2 THEN "sheet.pdf" ELSE ""
SeriesIdOf(k) == k
SeriesTitle(k) == <<"series title", k>>
DetailWorkId(j) == ((j - 1) % NumWorks) + 1
DetailIdOf(j) == j
DetailTitle(j) == <<"detail title", j>>
DetailSubfolder(j) == "details"
MomentIdOf(m) == m
MomentTitle(m) == <<"moment title", m>>

\* Python's None, for checksums and hashes (records) and for cell text.
None == [none |-> TRUE]
NoText == ""
Dims(w, h) == [none |-> FALSE, w |-> w, h |-> h]

\* What read_image_dims_px returns for the source image of a detail or a
\* moment in the generator runs: the image of detail 1 and of every moment
\* is readable, the image of the other details is missing (None, None).
DetailImageDims(j) == IF j = 1 THEN Dims(640, 480) ELSE None
MomentImageDims(m) == Dims(800, 600)

\* ---------------------------------------------------------------- state
VARIABLES
    wbDisk,     \* the workbook file: mutable cells of every sheet
    wbCells,    \* live cells of the workbook loaded by the current run
    sheetRows,  \* values_only snapshot of the rows taken at load
    fs,         \* output tree: path -> content, DOMAIN fs = existing files
    dirs,       \* existing output directories
    args,       \* command line of the current run
    pc,         \* position of main()
    idx,        \* row index of the current loop
    log,        \* what the run reported and counted
    prev,       \* args and report of the previous completed run
    runNo,      \* runs started so far
    pure        \* state of the specifications other than Spec: inputs and
                \* results of pure functions, the copier, the orchestrator

vars == <<wbDisk, wbCells, sheetRows, fs, dirs, args, pc, idx, log, prev, runNo, pure>>
genVars == <<wbDisk, wbCells, sheetRows, fs, dirs, args, pc, idx, log, prev, runNo>>

\* ------------------------------------------------ helpers (ID/date/text)
normalize_status(value) ==
    CASE value = NoText -> ""
      [] value = "Draft " -> "draft"
      [] value = "PUBLISHED" -> "published"
      [] OTHER -> value

\* Variants of the status gate used to test the properties below.
is_actionable_status_published_only(status_value, force) ==
    status_value = "published" /\ force

is_actionable_status_force_all(status_value, force) ==
    status_value = "draft" \/ force

is_actionable_status(status_value, force) ==
    \/ status_value = "draft"
    \/ (status_value = "published" /\ force)

\* ------------------------------------------------------------- checksums
DropChecksum(front_matter) ==
    [k \in (DOMAIN front_matter) \ {"checksum"} |-> front_matter[k]]

compute_work_checksum(front_matter) == DropChecksum(front_matter)

compute_series_hash(series_id, work_ids) ==
    [series_id |-> series_id, work_ids |-> work_ids]

compute_work_details_hash(work_id, sections) ==
    [work_id |-> work_id, sections |-> sections]

Exists(files, path) == path \in DOMAIN files

extract_existing_checksum(files, path) ==
    IF Exists(files, path) /\ "checksum" \in DOMAIN files[path]
    THEN files[path].checksum
    ELSE None

extract_existing_series_hash(files, path) ==
    IF Exists(files, path) /\ "header" \in DOMAIN files[path]
    THEN files[path].header.hash
    ELSE None

WriteText(files, path, content) ==
    [p \in (DOMAIN files) \cup {path} |-> IF p = path THEN content ELSE files[p]]

\* ------------------------------------------------------- command line
NotGiven == [given |-> FALSE, ids |-> {}]
Given(S) == [given |-> TRUE, ids |-> S]

\* selected_ids: the ID-list file wins over the inline list (if / elif);
\* a series scope without a work filter empties the work scope.
explicit_work_filter(a) == a.work_ids_file.given \/ a.work_ids.given
explicit_moment_filter(a) == a.moment_ids_file.given \/ a.moment_ids.given

selected_series_ids(a) ==
    IF a.series_ids_file.given THEN a.series_ids_file
    ELSE IF a.series_ids.given THEN a.series_ids
    ELSE NotGiven

selected_ids(a) ==
    IF selected_series_ids(a).given /\ ~explicit_work_filter(a) THEN Given({})
    ELSE IF a.work_ids_file.given THEN a.work_ids_file
    ELSE IF a.work_ids.given THEN a.work_ids
    ELSE NotGiven

selected_moment_ids(a) ==
    IF a.moment_ids_file.given THEN a.moment_ids_file
    ELSE IF a.moment_ids.given THEN a.moment_ids
    ELSE NotGiven

run_moments(a) ==
    ~((explicit_work_filter(a) \/ selected_series_ids(a).given) /\ ~explicit_moment_filter(a))

\* True when the scope does not exclude `id` (scope is None or contains it).
InScope(scope, id) == ~scope.given \/ id \in scope.ids

run_series_pages(a) == ~(explicit_work_filter(a) /\ ~selected_series_ids(a).given)

series_page_selected_ids(a) == selected_series_ids(a)

affected_series_ids(a) ==
    {SeriesIdOfWork(i) : i \in {w \in WorkRows : selected_ids(a).given /\ WorkIdOf(w) \in selected_ids(a).ids}}

series_json_selected_ids_unscoped(a) == selected_series_ids(a)

series_json_selected_ids(a) ==
    IF explicit_work_filter(a) /\ ~selected_series_ids(a).given
    THEN Given(affected_series_ids(a))
    ELSE selected_series_ids(a)

\* ------------------------------------------------- front matter, pages
series_title_by_id(sid) ==
    IF \E k \in SeriesRows : SeriesIdOf(k) = sid
    THEN SeriesTitle(CHOOSE k \in SeriesRows : SeriesIdOf(k) = sid)
    ELSE <<"null">>

WorkFrontMatter(i) ==
    [work_id |-> WorkIdOf(i),
     title |-> WorkTitle(i),
     series_id |-> SeriesIdOfWork(i),
     series_title |-> series_title_by_id(SeriesIdOfWork(i)),
     download |-> Download(i)]

Page(front_matter, body) ==
    [front |-> front_matter, checksum |-> compute_work_checksum(front_matter), body |-> body]

WorkBody(files, i) ==
    IF Exists(files, <<"work_prose", WorkIdOf(i)>>) THEN <<"include work_prose", WorkIdOf(i)>> ELSE <<>>

WorkContent(files, i) == Page(WorkFrontMatter(i), WorkBody(files, i))

SeriesFrontMatter(k) ==
    [series_id |-> SeriesIdOf(k), title |-> SeriesTitle(k), layout |-> "series"]

SeriesContent(k) == Page(SeriesFrontMatter(k), <<"include series_prose", SeriesIdOf(k)>>)

ResolveDims_sheet_first(sheet_dims, src_dims) ==
    IF sheet_dims.none THEN src_dims ELSE sheet_dims

\* width_px / height_px: the source image's dimensions when they can be
\* read, the sheet's cells otherwise.
ResolveDims(sheet_dims, src_dims) ==
    IF src_dims.none THEN sheet_dims ELSE src_dims

DetailUid(j) == <<DetailWorkId(j), DetailIdOf(j)>>

DetailFrontMatter(j, sheet_dims, src_dims) ==
    [work_id |-> DetailWorkId(j),
     detail_id |-> DetailIdOf(j),
     detail_uid |-> DetailUid(j),
     title |-> DetailTitle(j),
     project_subfolder |-> DetailSubfolder(j),
     dims_px |-> ResolveDims(sheet_dims, src_dims),
     layout |-> "work_details"]

DetailContent(j, sheet_dims, src_dims) ==
    Page(DetailFrontMatter(j, sheet_dims, src_dims), <<>>)

MomentFrontMatter(m, sheet_dims, src_dims) ==
    [moment_id |-> MomentIdOf(m),
     title |-> MomentTitle(m),
     images |-> <<[file |-> <<MomentIdOf(m), "webp">>, alt |-> MomentTitle(m)]>>,
     dims_px |-> ResolveDims(sheet_dims, src_dims),
     layout |-> "moment"]

MomentContent(m, sheet_dims, src_dims) ==
    Page(MomentFrontMatter(m, sheet_dims, src_dims), <<"include moments_prose", MomentIdOf(m)>>)

\* write_page: [written |-> the page was written or would be, matched |->
\* the existing file embeds the fresh checksum, files |-> the tree after].
ChecksumMatches(files, path, content) ==
    /\ extract_existing_checksum(files, path) # None
    /\ extract_existing_checksum(files, path) = content.checksum

write_page_force_ignored(files, path, content, write, force) ==
    IF ChecksumMatches(files, path, content)
    THEN [written |-> FALSE, matched |-> TRUE, files |-> files]
    ELSE [written |-> TRUE, matched |-> FALSE,
          files |-> IF write THEN WriteText(files, path, content) ELSE files]

write_page(files, path, content, write, force) ==
    IF ChecksumMatches(files, path, content) /\ ~force
    THEN [written |-> FALSE, matched |-> TRUE, files |-> files]
    ELSE [written |-> TRUE, matched |-> ChecksumMatches(files, path, content),
          files |-> IF write THEN WriteText(files, path, content) ELSE files]

status_update_due_any_outcome(written, write) == write

\* Lines 813-815: the status cells are touched only when write_page
\* returned True and --write is set.
status_update_due(written, write) == written /\ write

Publish_date_on_status_change_only(row, has_date_col, force) ==
    IF normalize_status(row.status) # "published"
    THEN [row EXCEPT !.status = "published",
                     !.published_date = IF has_date_col THEN "today" ELSE @]
    ELSE row

\* The status / published_date update after a page write (write mode).
Publish(row, has_date_col, force) ==
    LET status_was == normalize_status(row.status)
        r1 == IF status_was # "published" THEN [row EXCEPT !.status = "published"] ELSE row
    IN IF (status_was # "published" \/ force) /\ has_date_col
       THEN [r1 EXCEPT !.published_date = "today"]
       ELSE r1

StatusChanges(row) == normalize_status(row.status) # "published"
DateChanges(row, has_date_col, force) ==
    (normalize_status(row.status) # "published" \/ force) /\ has_date_col

\* Variant used to test the properties below.
dims_persist_due_in_preview(src_dims, cell_dims, write) ==
    ~src_dims.none /\ cell_dims # src_dims

\* Lines 1277-1283 and 1602-1608: in write mode the dimensions read from
\* the source image replace the width_px / height_px cells that differ.
dims_persist_due(src_dims, cell_dims, write) ==
    ~src_dims.none /\ write /\ cell_dims # src_dims

\* Variant used to test the properties below.
prose_placeholder_due_overwriting(files, prose_path, write) == write

\* Lines 1032-1041 and 1633-1642: a prose placeholder is written only
\* where no prose file exists, and only in write mode.
prose_placeholder_due(files, prose_path, write) ==
    ~Exists(files, prose_path) /\ write

AllDirs == {"_works", "_works_print", "work_prose", "_series", "series_prose",
            "series_json", "_work_details", "works_json", "works_files",
            "_moments", "moments_prose"}

EmptyLog ==
    [written |-> {}, skipped |-> {}, matched |-> {}, processed |-> {},
     status_updated |-> {}, date_updated |-> {}, dims_updated |-> {},
     copied |-> {}, saves |-> 0, start_files |-> {}]

NoArgs ==
    [write |-> FALSE, force |-> FALSE,
     work_ids |-> NotGiven, work_ids_file |-> NotGiven,
     series_ids |-> NotGiven, series_ids_file |-> NotGiven,
     moment_ids |-> NotGiven, moment_ids_file |-> NotGiven]

NoPrev == [ran |-> FALSE, args |-> NoArgs, written |-> {}, start_files |-> {}]

NoPure == [kind |-> "none"]

\* ------------------------------------------------------- initial states
StatusCells == {"draft", "published", "maybe"}

Row(st) ==
    [status |-> st,
     published_date |-> IF normalize_status(st) = "published" THEN "2024-01-01" ELSE NoText]

DimRow(st, d) ==
    [status |-> st,
     published_date |-> IF normalize_status(st) = "published" THEN "2024-01-01" ELSE NoText,
     dims |-> d]

AllDateCols == {"Works", "Series", "WorkDetails", "Moments"}

\* Pages a previous write-mode run left for the given rows.
PagesOf(W, D, M) ==
    [p \in {<<"_works", WorkIdOf(i)>> : i \in W}
           \cup {<<"_work_details", DetailUid(j)>> : j \in D}
           \cup {<<"_moments", MomentIdOf(m)>> : m \in M} |->
        IF p[1] = "_works"
        THEN WorkContent(<<>>, CHOOSE i \in W : WorkIdOf(i) = p[2])
        ELSE IF p[1] = "_work_details"
        THEN LET j == CHOOSE j \in D : DetailUid(j) = p[2]
             IN DetailContent(j, DetailImageDims(j), DetailImageDims(j))
        ELSE LET m == CHOOSE m \in M : MomentIdOf(m) = p[2]
             IN MomentContent(m, MomentImageDims(m), MomentImageDims(m))]

Workbook(ws, ss, ds, ms, D, M, date_cols, dims_cols) ==
    [works |-> [i \in WorkRows |-> Row(ws[i])],
     series |-> [k \in SeriesRows |-> Row(ss[k])],
     details |-> [j \in DetailRows |->
                    DimRow(ds[j], IF j \in D THEN DetailImageDims(j) ELSE None)],
     moments |-> [m \in MomentRows |->
                    DimRow(ms[m], IF m \in M THEN MomentImageDims(m) ELSE None)],
     date_cols |-> date_cols,
     dims_cols |-> dims_cols]

\* The workbooks and output trees a run can start from: (A) works and
\* series in any status, work pages present or not; (B) details and
\* moments in any status, their pages present or not; (C) sheets without
\* the optional published_date / width_px / height_px columns; (D) draft
\* details and moments, the pages of the first detail and of the moments
\* on disk, no dimensions in the sheet.
InitStates ==
    {[wb |-> Workbook(ws, ss, [j \in DetailRows |-> "draft"], [m \in MomentRows |-> "draft"],
                      {}, {}, AllDateCols, TRUE),
      files |-> PagesOf(W, {}, {})] :
        ws \in {f \in [WorkRows -> StatusCells \cup {"Draft "}] :
                    \A i \in WorkRows : f[i] = "Draft " => i = 1},
        ss \in [SeriesRows -> StatusCells],
        W \in SUBSET WorkRows}
    \cup
    {[wb |-> Workbook([i \in WorkRows |-> "published"], [k \in SeriesRows |-> "published"],
                      ds, ms, D, M, AllDateCols, TRUE),
      files |-> PagesOf(WorkRows, D, M)] :
        ds \in [DetailRows -> StatusCells], ms \in [MomentRows -> StatusCells],
        D \in SUBSET DetailRows, M \in SUBSET MomentRows}
    \cup
    {[wb |-> Workbook([i \in WorkRows |-> "draft"], [k \in SeriesRows |-> "draft"],
                      [j \in DetailRows |-> "draft"], [m \in MomentRows |-> "draft"],
                      {}, {}, AllDateCols \ missing, dc),
      files |-> PagesOf({}, {}, {})] :
        missing \in {{"Works"}, {"Series"}, {"WorkDetails"}}, dc \in BOOLEAN}
    \cup
    {[wb |-> Workbook([i \in WorkRows |-> "published"], [k \in SeriesRows |-> "published"],
                      [j \in DetailRows |-> "draft"], [m \in MomentRows |-> "draft"],
                      {}, {}, AllDateCols, TRUE),
      files |-> PagesOf(WorkRows, {1}, MomentRows)]}

GenInit ==
    /\ \E s \in InitStates :
        /\ wbDisk = s.wb
        /\ wbCells = s.wb
        /\ sheetRows = s.wb
        /\ fs = s.files
        /\ dirs = IF DOMAIN s.files = {} THEN {} ELSE AllDirs
    /\ args = NoArgs
    /\ pc = "idle"
    /\ idx = 0
    /\ log = EmptyLog
    /\ prev = NoPrev
    /\ runNo = 0

Init == GenInit /\ pure = NoPure

\* ------------------------------------------------------------ the run
ScopeChoices(S) == {NotGiven} \cup {Given({x}) : x \in S}

ArgChoices ==
    {[write |-> w, force |-> f,
      work_ids |-> wi, work_ids_file |-> NotGiven,
      series_ids |-> si, series_ids_file |-> NotGiven,
      moment_ids |-> NotGiven, moment_ids_file |-> NotGiven] :
        w \in BOOLEAN, f \in BOOLEAN,
        wi \in ScopeChoices({WorkIdOf(1)}), si \in ScopeChoices({SeriesIdOf(1)})}

SameButWrite(a, b) == [a EXCEPT !.write = b.write] = b

\* Lines 506-720: parse the command line, load the workbook, create the
\* output directories (whatever --write says), resolve the scopes.
StartRun(a) ==
    /\ pc = "idle"
    /\ runNo < MaxRuns
    /\ prev.ran => SameButWrite(prev.args, a)
    /\ args' = a
    /\ wbCells' = wbDisk
    /\ sheetRows' = wbDisk
    /\ dirs' = AllDirs
    /\ log' = [EmptyLog EXCEPT !.start_files = DOMAIN fs]
    /\ pc' = "works"
    /\ idx' = 1
    /\ runNo' = runNo + 1
    /\ UNCHANGED <<wbDisk, fs, prev, pure>>

Count(written, path) == IF written THEN {path} ELSE {}

\* Lines 723-863: one iteration of the Works loop.
WorkRow ==
    /\ pc = "works"
    /\ idx \in WorkRows
    /\ LET i == idx
           wid == WorkIdOf(i)
           status == normalize_status(sheetRows.works[i].status)
           act == InScope(selected_ids(args), wid) /\ is_actionable_status(status, args.force)
           out_path == <<"_works", wid>>
           print_path == <<"_works_print", wid>>
           content == WorkContent(fs, i)
           works_print == normalize_status(WorksPrint(i)) = "yes"
           w1 == write_page(fs, out_path, content, args.write, args.force)
           w2 == IF works_print
                 THEN write_page(w1.files, print_path, content, args.write, args.force)
                 ELSE [written |-> FALSE, matched |-> FALSE, files |-> w1.files]
           has_download == Download(i) # NoText
           files3 == IF has_download /\ args.write
                     THEN WriteText(w2.files, <<"works_files", wid>>, <<"copy of", Download(i)>>)
                     ELSE w2.files
           row == wbCells.works[i]
           has_date == "Works" \in wbCells.date_cols
           upd == status_update_due(w1.written, args.write)
       IN IF ~act
          THEN UNCHANGED <<fs, wbCells, log>>
          ELSE /\ fs' = files3
               /\ wbCells' = IF upd
                             THEN [wbCells EXCEPT !.works[i] = Publish(row, has_date, args.force)]
                             ELSE wbCells
               /\ log' = [log EXCEPT
                    !.processed = @ \cup {<<"Works", i>>},
                    !.written = @ \cup Count(w1.written, out_path) \cup Count(w2.written, print_path),
                    !.skipped = @ \cup Count(~w1.written, out_path)
                                  \cup Count(works_print /\ ~w2.written, print_path),
                    !.matched = @ \cup Count(w1.matched, out_path) \cup Count(w2.matched, print_path),
                    !.status_updated = @ \cup Count(upd /\ StatusChanges(row), <<"Works", i>>),
                    !.date_updated = @ \cup Count(upd /\ DateChanges(row, has_date, args.force), <<"Works", i>>),
                    !.copied = @ \cup Count(has_download, <<"works_files", wid>>)]
    /\ idx' = idx + 1
    /\ UNCHANGED <<wbDisk, sheetRows, dirs, args, pc, prev, runNo, pure>>

Updated(set, sheet) == \E e \in set : e[1] = sheet

\* wb.save(xlsx_path): the whole workbook, every sheet's live cells.
Save(cond) ==
    /\ wbDisk' = IF cond THEN wbCells ELSE wbDisk
    /\ log' = [log EXCEPT !.saves = IF cond THEN @ + 1 ELSE @]

WorksSaveCond(a, l) == a.write /\ Updated(l.status_updated, "Works")

\* Lines 865-906: save when a status changed, then fix the series scope.
\* With run_series_pages off the Series loop is not entered.
WorksSave ==
    /\ pc = "works"
    /\ idx > NumWorks
    /\ Save(WorksSaveCond(args, log))
    /\ pc' = "series"
    /\ idx' = IF run_series_pages(args) THEN 1 ELSE NumSeries + 1
    /\ UNCHANGED <<wbCells, sheetRows, fs, dirs, args, prev, runNo, pure>>

is_actionable_series_status(status_value, force) ==
    \/ status_value = "draft"
    \/ (status_value = "published" /\ force)

\* Lines 948-1041: one iteration of the Series page loop.
SeriesRow ==
    /\ pc = "series"
    /\ idx \in SeriesRows
    /\ LET k == idx
           series_id == SeriesIdOf(k)
           status == normalize_status(sheetRows.series[k].status)
           act == InScope(series_page_selected_ids(args), series_id)
                  /\ is_actionable_series_status(status, args.force)
           series_path == <<"_series", series_id>>
           prose_path == <<"series_prose", series_id>>
           series_content == SeriesContent(k)
           needs_write == ~Exists(fs, series_path) \/ fs[series_path] # series_content
           written == needs_write \/ args.force
           files1 == IF written /\ args.write
                     THEN WriteText(fs, series_path, series_content) ELSE fs
           files2 == IF prose_placeholder_due(files1, prose_path, args.write)
                     THEN WriteText(files1, prose_path, <<"series prose placeholder", series_id>>)
                     ELSE files1
           row == wbCells.series[k]
           has_date == "Series" \in wbCells.date_cols
           upd == status_update_due(written, args.write)
       IN IF ~act
          THEN UNCHANGED <<fs, wbCells, log>>
          ELSE /\ fs' = files2
               /\ wbCells' = IF upd
                             THEN [wbCells EXCEPT !.series[k] = Publish(row, has_date, args.force)]
                             ELSE wbCells
               /\ log' = [log EXCEPT
                    !.processed = @ \cup {<<"Series", k>>},
                    !.written = @ \cup Count(written, series_path),
                    !.skipped = @ \cup Count(~written, series_path),
                    !.matched = @ \cup Count(~needs_write, series_path),
                    !.status_updated = @ \cup Count(upd /\ StatusChanges(row), <<"Series", k>>),
                    !.date_updated = @ \cup Count(upd /\ DateChanges(row, has_date, args.force), <<"Series", k>>)]
    /\ idx' = idx + 1
    /\ UNCHANGED <<wbDisk, sheetRows, dirs, args, pc, prev, runNo, pure>>

SeriesSaveCond(a, l) ==
    a.write /\ (Updated(l.status_updated, "Series") \/ Updated(l.date_updated, "Series"))

\* Lines 1045-1051.
SeriesSave ==
    /\ pc = "series"
    /\ idx > NumSeries
    /\ Save(SeriesSaveCond(args, log))
    /\ pc' = "series_json"
    /\ idx' = 0
    /\ UNCHANGED <<wbCells, sheetRows, fs, dirs, args, prev, runNo, pure>>

\* sorted(list): insertion sort of a sequence of IDs.
RECURSIVE Insert(_, _)
Insert(x, seq) ==
    IF seq = <<>> THEN <<x>>
    ELSE IF x <= Head(seq) THEN <<x>> \o seq
    ELSE <<Head(seq)>> \o Insert(x, Tail(seq))

RECURSIVE Sorted(_)
Sorted(seq) == IF seq = <<>> THEN <<>> ELSE Insert(Head(seq), Sorted(Tail(seq)))

\* Lines 1081-1103: the published work_ids of a series, from the live
\* status cells, appended in row order and then sorted.
RECURSIVE PublishedWorkIds(_, _, _)
PublishedWorkIds(cells, sid, i) ==
    IF i > NumWorks THEN <<>>
    ELSE (IF normalize_status(cells.works[i].status) = "published" /\ SeriesIdOfWork(i) = sid
          THEN <<WorkIdOf(i)>> ELSE <<>>) \o PublishedWorkIds(cells, sid, i + 1)

work_ids_by_series(cells, sid) == Sorted(PublishedWorkIds(cells, sid, 1))

SeriesJsonPayload(cells, k) ==
    LET work_ids == work_ids_by_series(cells, SeriesIdOf(k))
    IN [header |-> [series_id |-> SeriesIdOf(k),
                    count |-> Len(work_ids),
                    hash |-> compute_series_hash(SeriesIdOf(k), work_ids)],
        work_ids |-> work_ids]

series_json_gate(status, force) == status # "draft"

\* Series rows whose JSON index passes the scope and the status test.
SeriesJsonCandidates(a, cells) ==
    {k \in SeriesRows :
        /\ InScope(series_json_selected_ids(a), SeriesIdOf(k))
        /\ series_json_gate(normalize_status(cells.series[k].status), a.force)}

SeriesJsonMatched(a, cells, files) ==
    {k \in SeriesJsonCandidates(a, cells) :
        LET existing_hash == extract_existing_series_hash(files, <<"series_json", SeriesIdOf(k)>>)
        IN existing_hash # None /\ existing_hash = SeriesJsonPayload(cells, k).header.hash}

SeriesJsonToWrite(a, cells, files) ==
    {k \in SeriesJsonCandidates(a, cells) :
        ~(k \in SeriesJsonMatched(a, cells, files) /\ ~a.force)}

WriteAll(files, contents) ==
    [p \in (DOMAIN files) \cup (DOMAIN contents) |->
        IF p \in DOMAIN contents THEN contents[p] ELSE files[p]]

\* Lines 1064-1157: the series JSON loop (one file per series, each path
\* written at most once, so the loop is one step).
SeriesJson ==
    /\ pc = "series_json"
    /\ LET cand == SeriesJsonCandidates(args, wbCells)
           to_write == SeriesJsonToWrite(args, wbCells, fs)
           paths(K) == {<<"series_json", SeriesIdOf(k)>> : k \in K}
           contents == [p \in paths(to_write) |->
                          SeriesJsonPayload(wbCells, CHOOSE k \in to_write : SeriesIdOf(k) = p[2])]
       IN /\ fs' = IF args.write THEN WriteAll(fs, contents) ELSE fs
          /\ log' = [log EXCEPT
                !.processed = @ \cup {<<"SeriesJson", k>> : k \in cand},
                !.written = @ \cup paths(to_write),
                !.skipped = @ \cup paths(cand \ to_write),
                !.matched = @ \cup paths(SeriesJsonMatched(args, wbCells, fs))]
    /\ pc' = "details_setup"
    /\ UNCHANGED <<wbDisk, wbCells, sheetRows, dirs, args, idx, prev, runNo, pure>>

\* Lines 1162-1220: in write mode the width_px / height_px header cells
\* are added to the WorkDetails sheet when it has none.
DetailsSetup ==
    /\ pc = "details_setup"
    /\ wbCells' = IF args.write THEN [wbCells EXCEPT !.dims_cols = TRUE] ELSE wbCells
    /\ pc' = "details"
    /\ idx' = 1
    /\ UNCHANGED <<wbDisk, sheetRows, fs, dirs, args, log, prev, runNo, pure>>

is_actionable_detail_status(status_value, force) ==
    \/ status_value = "draft"
    \/ (status_value = "published" /\ force)

\* Lines 1223-1332: one iteration of the WorkDetails loop.  The skip /
\* write test of lines 1306-1332 is write_page's.
DetailRow ==
    /\ pc = "details"
    /\ idx \in DetailRows
    /\ LET j == idx
           wid == DetailWorkId(j)
           status == normalize_status(sheetRows.details[j].status)
           act == InScope(selected_ids(args), wid)
                  /\ is_actionable_detail_status(status, args.force)
           src_dims == DetailImageDims(j)
           row == wbCells.details[j]
           persist == dims_persist_due(src_dims, row.dims, args.write)
           row1 == IF persist THEN [row EXCEPT !.dims = src_dims] ELSE row
           d_path == <<"_work_details", DetailUid(j)>>
           d_content == DetailContent(j, sheetRows.details[j].dims, src_dims)
           w == write_page(fs, d_path, d_content, args.write, args.force)
           has_date == "WorkDetails" \in wbCells.date_cols
           upd == status_update_due(w.written, args.write)
       IN IF ~act
          THEN UNCHANGED <<fs, wbCells, log>>
          ELSE /\ fs' = w.files
               /\ wbCells' = [wbCells EXCEPT !.details[j] =
                                IF upd THEN Publish(row1, has_date, args.force) ELSE row1]
               /\ log' = [log EXCEPT
                    !.processed = @ \cup {<<"WorkDetails", j>>},
                    !.written = @ \cup Count(w.written, d_path),
                    !.skipped = @ \cup Count(~w.written, d_path),
                    !.matched = @ \cup Count(w.matched, d_path),
                    !.dims_updated = @ \cup Count(persist, <<"WorkDetails", j>>),
                    !.status_updated = @ \cup Count(upd /\ StatusChanges(row), <<"WorkDetails", j>>),
                    !.date_updated = @ \cup Count(upd /\ DateChanges(row, has_date, args.force), <<"WorkDetails", j>>)]
    /\ idx' = idx + 1
    /\ UNCHANGED <<wbDisk, sheetRows, dirs, args, pc, prev, runNo, pure>>

DetailsSaveCond(a, l) ==
    a.write /\ (Updated(l.status_updated, "WorkDetails") \/ Updated(l.date_updated, "WorkDetails")
                \/ Updated(l.dims_updated, "WorkDetails"))

\* Lines 1334-1345.
DetailsSave ==
    /\ pc = "details"
    /\ idx > NumDetails
    /\ Save(DetailsSaveCond(args, log))
    /\ pc' = "work_json"
    /\ idx' = 0
    /\ UNCHANGED <<wbCells, sheetRows, fs, dirs, args, prev, runNo, pure>>

\* ------------------------------------------ work-details JSON (sections)
DetailRecord(j) ==
    [work_id |-> DetailWorkId(j), detail_id |-> DetailIdOf(j),
     project_subfolder |-> DetailSubfolder(j), title |-> DetailTitle(j),
     has_primary_2400 |-> FALSE]

DetailEntry(r) ==
    [detail_id |-> r.detail_id, detail_uid |-> <<r.work_id, r.detail_id>>,
     title |-> r.title, has_primary_2400 |-> r.has_primary_2400]

\* Lines 1379-1400: sections in order of first appearance of their
\* project_subfolder, details in row order within a section.
RECURSIVE BuildSections(_, _)
BuildSections(rows, sections) ==
    IF rows = <<>> THEN sections
    ELSE LET r == Head(rows)
             at == {n \in 1..Len(sections) : sections[n].project_subfolder = r.project_subfolder}
             next == IF at = {}
                     THEN Append(sections, [project_subfolder |-> r.project_subfolder,
                                            details |-> <<DetailEntry(r)>>])
                     ELSE [sections EXCEPT ![CHOOSE n \in at : TRUE].details =
                                                Append(@, DetailEntry(r))]
         IN BuildSections(Tail(rows), next)

sections_by_work_ungrouped(rows) ==
    [n \in 1..Len(rows) |-> [project_subfolder |-> rows[n].project_subfolder,
                             details |-> <<DetailEntry(rows[n])>>]]

sections_by_work(rows) == BuildSections(rows, <<>>)

RECURSIVE DetailCount(_)
DetailCount(sections) ==
    IF sections = <<>> THEN 0 ELSE Len(Head(sections).details) + DetailCount(Tail(sections))

WorkJsonPayload(wid, sections) ==
    [header |-> [work_id |-> wid, count |-> DetailCount(sections),
                 hash |-> compute_work_details_hash(wid, sections)],
     sections |-> sections]

\* Published detail rows of a work, in sheet order (live status cells).
RECURSIVE PublishedDetails(_, _, _, _)
PublishedDetails(a, cells, wid, j) ==
    IF j > NumDetails THEN <<>>
    ELSE (IF DetailWorkId(j) = wid /\ InScope(selected_ids(a), wid)
             /\ normalize_status(cells.details[j].status) = "published"
          THEN <<DetailRecord(j)>> ELSE <<>>) \o PublishedDetails(a, cells, wid, j + 1)

encountered_work_ids(a, cells) ==
    {DetailWorkId(j) : j \in {d \in DetailRows : InScope(selected_ids(a), DetailWorkId(d))}}

WorkJsonOf(a, cells, wid) ==
    WorkJsonPayload(wid, sections_by_work(PublishedDetails(a, cells, wid, 1)))

WorkJsonMatched(a, cells, files) ==
    {wid \in encountered_work_ids(a, cells) :
        LET existing_hash == extract_existing_series_hash(files, <<"works_json", wid>>)
        IN existing_hash # None /\ existing_hash = WorkJsonOf(a, cells, wid).header.hash}

WorkJsonToWrite(a, cells, files) ==
    {wid \in encountered_work_ids(a, cells) :
        ~(wid \in WorkJsonMatched(a, cells, files) /\ ~a.force)}

\* Lines 1347-1439: the work-details JSON loop (one file per work_id).
\* With run_moments off the Moments loop is not entered.
WorkJson ==
    /\ pc = "work_json"
    /\ LET enc == encountered_work_ids(args, wbCells)
           to_write == WorkJsonToWrite(args, wbCells, fs)
           paths(W) == {<<"works_json", wid>> : wid \in W}
           contents == [p \in paths(to_write) |-> WorkJsonOf(args, wbCells, p[2])]
       IN /\ fs' = IF args.write THEN WriteAll(fs, contents) ELSE fs
          /\ log' = [log EXCEPT
                !.processed = @ \cup {<<"WorkJson", wid>> : wid \in enc},
                !.written = @ \cup paths(to_write),
                !.skipped = @ \cup paths(enc \ to_write),
                !.matched = @ \cup paths(WorkJsonMatched(args, wbCells, fs))]
    /\ pc' = "moments"
    /\ idx' = IF run_moments(args) THEN 1 ELSE NumMoments + 1
    /\ UNCHANGED <<wbDisk, wbCells, sheetRows, dirs, args, prev, runNo, pure>>

is_actionable_moment_status(status_value, force) ==
    \/ status_value = "draft"
    \/ (status_value = "published" /\ force)

\* Lines 1532-1673: one iteration of the Moments loop.
MomentRow ==
    /\ pc = "moments"
    /\ idx \in MomentRows
    /\ LET m == idx
           mid == MomentIdOf(m)
           status == normalize_status(sheetRows.moments[m].status)
           act == InScope(selected_moment_ids(args), mid)
                  /\ is_actionable_moment_status(status, args.force)
           src_dims == MomentImageDims(m)
           row == wbCells.moments[m]
           persist == dims_persist_due(src_dims, row.dims, args.write)
           row1 == IF persist THEN [row EXCEPT !.dims = src_dims] ELSE row
           prose_path == <<"moments_prose", mid>>
           m_path == <<"_moments", mid>>
           m_content == MomentContent(m, sheetRows.moments[m].dims, src_dims)
           files1 == IF prose_placeholder_due(fs, prose_path, args.write)
                     THEN WriteText(fs, prose_path, <<"moment prose placeholder", mid>>)
                     ELSE fs
           w == write_page(files1, m_path, m_content, args.write, args.force)
           has_date == "Moments" \in wbCells.date_cols
           upd == status_update_due(w.written, args.write)
       IN IF ~act
          THEN UNCHANGED <<fs, wbCells, log>>
          ELSE /\ fs' = w.files
               /\ wbCells' = [wbCells EXCEPT !.moments[m] =
                                IF upd THEN Publish(row1, has_date, args.force) ELSE row1]
               /\ log' = [log EXCEPT
                    !.processed = @ \cup {<<"Moments", m>>},
                    !.written = @ \cup Count(w.written, m_path),
                    !.skipped = @ \cup Count(~w.written, m_path),
                    !.matched = @ \cup Count(w.matched, m_path),
                    !.dims_updated = @ \cup Count(persist, <<"Moments", m>>),
                    !.status_updated = @ \cup Count(upd /\ StatusChanges(row), <<"Moments", m>>),
                    !.date_updated = @ \cup Count(upd /\ DateChanges(row, has_date, args.force), <<"Moments", m>>)]
    /\ idx' = idx + 1
    /\ UNCHANGED <<wbDisk, sheetRows, dirs, args, pc, prev, runNo, pure>>

MomentsSaveCond(a, l) ==
    a.write /\ (Updated(l.status_updated, "Moments") \/ Updated(l.date_updated, "Moments")
                \/ Updated(l.dims_updated, "Moments"))

\* Lines 1675-1686: the last save; main() returns.
MomentsSave ==
    /\ pc = "moments"
    /\ idx > NumMoments
    /\ Save(MomentsSaveCond(args, log))
    /\ pc' = "done"
    /\ idx' = 0
    /\ UNCHANGED <<wbCells, sheetRows, fs, dirs, args, prev, runNo, pure>>

\* The process exits: the loaded workbook is dropped; the report of the
\* run is remembered for the next one.
Finish ==
    /\ pc = "done"
    /\ prev' = [ran |-> TRUE, args |-> args, written |-> log.written,
                start_files |-> log.start_files]
    /\ wbCells' = wbDisk
    /\ sheetRows' = wbDisk
    /\ args' = NoArgs
    /\ log' = EmptyLog
    /\ pc' = "idle"
    /\ UNCHANGED <<wbDisk, fs, dirs, idx, runNo, pure>>

Next ==
    \/ \E a \in ArgChoices : StartRun(a)
    \/ WorkRow
    \/ WorksSave
    \/ SeriesRow
    \/ SeriesSave
    \/ SeriesJson
    \/ DetailsSetup
    \/ DetailRow
    \/ DetailsSave
    \/ WorkJson
    \/ MomentRow
    \/ MomentsSave
    \/ Finish

Spec == Init /\ [][Next]_vars

\* =====================================================================
\* Properties of the generator (checked under Spec)
\* =====================================================================
PageRecords ==
    {<<"Works", i>> : i \in WorkRows} \cup {<<"Series", k>> : k \in SeriesRows}
    \cup {<<"WorkDetails", j>> : j \in DetailRows} \cup {<<"Moments", m>> : m \in MomentRows}

PagePath(rec) ==
    CASE rec[1] = "Works" -> <<"_works", WorkIdOf(rec[2])>>
      [] rec[1] = "Series" -> <<"_series", SeriesIdOf(rec[2])>>
      [] rec[1] = "WorkDetails" -> <<"_work_details", DetailUid(rec[2])>>
      [] rec[1] = "Moments" -> <<"_moments", MomentIdOf(rec[2])>>

CellsOf(wb, rec) ==
    CASE rec[1] = "Works" -> wb.works[rec[2]]
      [] rec[1] = "Series" -> wb.series[rec[2]]
      [] rec[1] = "WorkDetails" -> wb.details[rec[2]]
      [] rec[1] = "Moments" -> wb.moments[rec[2]]

StatusOf(wb, rec) == normalize_status(CellsOf(wb, rec).status)
DateOf(wb, rec) == CellsOf(wb, rec).published_date

\* The record is inside the scope the command line gives its stage.
ScopedIn(a, rec) ==
    CASE rec[1] = "Works" ->
            (a.series_ids.given /\ ~a.work_ids.given => FALSE)
            /\ (a.work_ids.given => WorkIdOf(rec[2]) \in a.work_ids.ids)
      [] rec[1] = "Series" ->
            (a.work_ids.given /\ ~a.series_ids.given => FALSE)
            /\ (a.series_ids.given => SeriesIdOf(rec[2]) \in a.series_ids.ids)
      [] rec[1] = "WorkDetails" ->
            (a.series_ids.given /\ ~a.work_ids.given => FALSE)
            /\ (a.work_ids.given => DetailWorkId(rec[2]) \in a.work_ids.ids)
      [] rec[1] = "Moments" ->
            ~(a.work_ids.given \/ a.series_ids.given)

RunDone == pc = "done"

\* The stage of the record's sheet has finished its loop.
StageDone(rec) ==
    CASE rec[1] = "Works" -> pc \notin {"idle", "works"}
      [] rec[1] = "Series" -> pc \notin {"idle", "works", "series"}
      [] rec[1] = "WorkDetails" -> pc \in {"work_json", "moments", "done"}
      [] rec[1] = "Moments" -> pc = "done"

C3_PublishOnlyAfterWrite ==
    \A rec \in PageRecords :
        /\ (CellsOf(wbCells, rec).status # CellsOf(sheetRows, rec).status
            \/ DateOf(wbCells, rec) # DateOf(sheetRows, rec))
           => (args.write /\ PagePath(rec) \in log.written
               /\ Exists(fs, PagePath(rec))
               /\ StatusOf(wbCells, rec) = "published")
        /\ PagePath(rec) \in log.skipped
           => (CellsOf(wbCells, rec).status = CellsOf(sheetRows, rec).status
               /\ DateOf(wbCells, rec) = DateOf(sheetRows, rec))

C3_Witness ==
    /\ args.write
    /\ \E rec \in PageRecords :
         /\ PagePath(rec) \in log.skipped
         /\ StatusOf(wbCells, rec) = "draft"
    /\ \E rec \in PageRecords :
         /\ PagePath(rec) \in log.written
         /\ StatusOf(sheetRows, rec) = "draft"
         /\ StatusOf(wbCells, rec) = "published"

\* ---------------------------------------------------------------- C4
HasDateCol(rec) == rec[1] \in wbCells.date_cols

\* C4 as stated: after a page write in write mode the status is published
\* and published_date is today iff the status was not published before or
\* --force is set; a run without --force leaves a published record alone.
C4_PublishDateRule ==
    \A rec \in PageRecords :
        /\ (args.write /\ PagePath(rec) \in log.written)
           => /\ CellsOf(wbCells, rec).status = "published"
              /\ (DateOf(wbCells, rec) = "today"
                  <=> (StatusOf(sheetRows, rec) # "published" \/ args.force))
        /\ (args.write /\ ~args.force /\ StatusOf(sheetRows, rec) = "published")
           => CellsOf(wbCells, rec) = CellsOf(sheetRows, rec)

\* C4 amended: the same, the date being stamped only when the sheet has a
\* published_date column (otherwise the date update is skipped).
C4_PublishDateRuleWithColumn ==
    \A rec \in PageRecords :
        /\ (args.write /\ PagePath(rec) \in log.written)
           => /\ StatusOf(wbCells, rec) = "published"
              /\ (DateOf(wbCells, rec) = "today"
                  <=> ((StatusOf(sheetRows, rec) # "published" \/ args.force)
                       /\ HasDateCol(rec)))
              /\ (DateOf(wbCells, rec) # "today"
                  => DateOf(wbCells, rec) = DateOf(sheetRows, rec))
        /\ (args.write /\ ~args.force /\ StatusOf(sheetRows, rec) = "published")
           => (CellsOf(wbCells, rec).status = CellsOf(sheetRows, rec).status
               /\ DateOf(wbCells, rec) = DateOf(sheetRows, rec))

C4_Witness ==
    /\ RunDone /\ args.write /\ args.force
    /\ \E rec \in PageRecords :
         /\ PagePath(rec) \in log.written
         /\ StatusOf(sheetRows, rec) = "published"
         /\ DateOf(sheetRows, rec) = "2024-01-01"
         /\ DateOf(wbCells, rec) = "today"
    /\ \E rec \in PageRecords :
         /\ PagePath(rec) \in log.written
         /\ StatusOf(sheetRows, rec) = "draft"
         /\ CellsOf(wbCells, rec).status = "published"
         /\ DateOf(wbCells, rec) = "today"

\* ---------------------------------------------------------------- C5
\* C5: with --force no artifact is skipped: every file whose embedded
\* checksum (or hash) equals the fresh one is still written (write mode:
\* the file exists afterwards) or reported as would-write (preview).
C5_ForceBypass ==
    args.force
    => /\ log.skipped = {}
       /\ log.matched \subseteq log.written
       /\ args.write => \A p \in log.matched : Exists(fs, p)

C5_Witness ==
    /\ RunDone /\ args.force
    /\ \E i \in WorkRows : <<"_works", WorkIdOf(i)>> \in log.matched \cap log.written
    /\ \E k \in SeriesRows : <<"series_json", SeriesIdOf(k)>> \in log.matched \cap log.written

\* ---------------------------------------------------------------- C6
\* C6 as stated: a run without --write changes no file, no directory, no
\* workbook cell, and does not save the workbook.
C6_PreviewChangesNothing ==
    [][(pc' # "idle" /\ ~args'.write)
       => (fs' = fs /\ dirs' = dirs /\ wbDisk' = wbDisk /\ log'.saves = 0
           /\ (pc # "idle" => wbCells' = wbCells))]_vars

\* ---------------------------------------------------------------- C7
\* C7 as stated: the artifacts a preview reports as would-write are the
\* artifacts the write-mode run with the same flags, started from the
\* state the preview left, reports as written.
C7_PreviewForecastsWrite ==
    (RunDone /\ args.write /\ prev.ran /\ ~prev.args.write /\ SameButWrite(prev.args, args))
    => prev.written = log.written

\* --------------------------------------------------------------- C10
ScopedWorks(a) == {i \in WorkRows : WorkIdOf(i) \in selected_ids(a).ids}
HasScopedWork(a, k) == \E i \in ScopedWorks(a) : SeriesIdOfWork(i) = SeriesIdOf(k)
SeriesJsonPath(k) == <<"series_json", SeriesIdOf(k)>>
WorkScopedOnly(a) == (a.work_ids.given \/ a.work_ids_file.given)
                     /\ ~(a.series_ids.given \/ a.series_ids_file.given)
Touched == log.written \cup log.skipped \cup log.matched

MaxChildren == 3

Subfolders == {"", "process", "install"}

\* A published WorkDetails row of work 1, as the work-details JSON loop
\* reads it.
ChildRow(d, sub) ==
    [work_id |-> WorkIdOf(1), detail_id |-> d, project_subfolder |-> sub,
     title |-> <<"detail title", d>>, has_primary_2400 |-> FALSE]

ChildRowSeqs ==
    UNION {{[n \in 1..len |-> ChildRow(n, subs[n])] : subs \in [1..len -> Subfolders]} :
             len \in 0..MaxChildren}

TagSeqs == UNION {{[n \in 1..len |-> <<"tag", n>>]} : len \in 0..MaxChildren}

Perms(n) == {p \in [1..n -> 1..n] : \A a, b \in 1..n : a # b => p[a] # p[b]}

Permute(seq, p) == [n \in 1..Len(seq) |-> seq[p[n]]]

\* Lines 742, 771: the tags cell is split into a list and stored in the
\* front matter in cell order.
WorkFrontMatterWithTags(i, tags) ==
    [k \in (DOMAIN WorkFrontMatter(i)) \cup {"tags"} |->
        IF k = "tags" THEN tags ELSE WorkFrontMatter(i)[k]]

PureGen ==
    /\ wbDisk = <<>> /\ wbCells = <<>> /\ sheetRows = <<>>
    /\ fs = <<>> /\ dirs = {}
    /\ args = NoArgs /\ pc = "pure" /\ idx = 0
    /\ log = EmptyLog /\ prev = NoPrev /\ runNo = 0

InitHash ==
    /\ PureGen
    /\ pure \in {[kind |-> "rows", rows |-> r] : r \in ChildRowSeqs}
                \cup {[kind |-> "tags", tags |-> t] : t \in TagSeqs}

\* The work-details JSON hash of the rows and of the rows in another
\* worksheet order.
HashChildRows(p) ==
    /\ pure.kind = "rows"
    /\ pure' = [kind |-> "hashed", rows |-> pure.rows,
                reordered |-> Permute(pure.rows, p),
                hash |-> compute_work_details_hash(WorkIdOf(1), sections_by_work(pure.rows)),
                hash_reordered |-> compute_work_details_hash(WorkIdOf(1),
                                        sections_by_work(Permute(pure.rows, p)))]
    /\ UNCHANGED genVars

\* The page checksum of a work with the tags and with the tags reordered.
HashTags(p) ==
    /\ pure.kind = "tags"
    /\ pure' = [kind |-> "tagged", tags |-> pure.tags,
                reordered |-> Permute(pure.tags, p),
                hash |-> compute_work_checksum(WorkFrontMatterWithTags(1, pure.tags)),
                hash_reordered |-> compute_work_checksum(
                                        WorkFrontMatterWithTags(1, Permute(pure.tags, p)))]
    /\ UNCHANGED genVars

NextHash ==
    \/ \E p \in (IF pure.kind = "rows" THEN Perms(Len(pure.rows)) ELSE {}) : HashChildRows(p)
    \/ \E p \in (IF pure.kind = "tags" THEN Perms(Len(pure.tags)) ELSE {}) : HashTags(p)

SpecHash == InitHash /\ [][NextHash]_vars

RECURSIVE SectionOrder(_)
SectionOrder(rows) ==
    IF rows = <<>> THEN <<>>
    ELSE <<Head(rows).project_subfolder>>
         \o SectionOrder(SelectSeq(Tail(rows),
                LAMBDA r : r.project_subfolder # Head(rows).project_subfolder))

RowsOfSection(rows, sub) == SelectSeq(rows, LAMBDA r : r.project_subfolder = sub)

KeepsSectionLayout(rows, reordered) ==
    /\ SectionOrder(rows) = SectionOrder(reordered)
    /\ \A sub \in Subfolders : RowsOfSection(rows, sub) = RowsOfSection(reordered, sub)

DimChoices == {None, Dims(640, 480), Dims(800, 600)}

\* Front matter and checksum of the record's page; src_dims is what
\* read_image_dims_px returns for the source image (None: image missing,
\* unreadable, or the `sips` tool unavailable).
DocumentOf(rec, sheet_dims, src_dims) ==
    LET page == CASE rec[1] = "Works" -> WorkContent(<<>>, rec[2])
                  [] rec[1] = "Series" -> SeriesContent(rec[2])
                  [] rec[1] = "WorkDetails" -> DetailContent(rec[2], sheet_dims, src_dims)
                  [] rec[1] = "Moments" -> MomentContent(rec[2], sheet_dims, src_dims)
    IN [front |-> page.front, checksum |-> page.checksum]

InitDoc ==
    /\ PureGen
    /\ pure \in {[kind |-> "record", rec |-> rec, sheet_dims |-> d] :
                    rec \in PageRecords, d \in DimChoices}

GenerateTwice(src1, src2) ==
    /\ pure.kind = "record"
    /\ pure' = [kind |-> "documents", rec |-> pure.rec, sheet_dims |-> pure.sheet_dims,
                src1 |-> src1, src2 |-> src2,
                doc1 |-> DocumentOf(pure.rec, pure.sheet_dims, src1),
                doc2 |-> DocumentOf(pure.rec, pure.sheet_dims, src2)]
    /\ UNCHANGED genVars

NextDoc == \E src1 \in DimChoices, src2 \in DimChoices : GenerateTwice(src1, src2)

SpecDoc == InitDoc /\ [][NextDoc]_vars

\* ---------------------------------------------------------------- C9
\* C9 as stated: the same record and lookups give the same document and
\* checksum whatever the source image on disk and the dimension tool.
C9_DocumentIgnoresSourceImage ==
    pure.kind = "documents" => pure.doc1 = pure.doc2

\* C9 amended: work and series documents depend on the rows alone; a
\* detail or moment document is the same in two runs exactly when both
\* runs read the same dimensions from the source image, or one cannot
\* read them and the other reads the row's width_px / height_px.
C9_DocumentDependsOnImageDims ==
    pure.kind = "documents"
    => IF pure.rec[1] \in {"Works", "Series"}
       THEN pure.doc1 = pure.doc2
       ELSE (pure.doc1 = pure.doc2
             <=> \/ pure.src1 = pure.src2
                 \/ (pure.src1 = None /\ pure.src2 = pure.sheet_dims)
                 \/ (pure.src2 = None /\ pure.src1 = pure.sheet_dims))

C9_Witness ==
    /\ pure.kind = "documents"
    /\ pure.rec[1] = "WorkDetails"
    /\ pure.src1 = None /\ pure.src2 # None /\ pure.src2 = pure.sheet_dims
    /\ pure.doc1 = pure.doc2

\* =====================================================================
\* Explicit scopes: ID lists and ID-list files (checked under SpecScope)
\* =====================================================================
\* An ID as it is typed in a list, a file or a cell: the number and its
\* written form ("short": 361, "canonical": 00361).
IdForms == {"canonical", "short"}

RawIds == {[id |-> i, form |-> fm] : i \in WorkRows, fm \in IdForms}

\* slug_id: digits only, zero-padded to the width.
slug_id(raw) == [id |-> raw.id, form |-> "canonical"]

\* normalize_id of the copy scripts: a digit string is zero-padded.
normalize_id(raw) == [id |-> raw.id, form |-> "canonical"]

\* The generator's number of a canonical ID.
CanonicalNumber(tok) == tok.id

\* A detail_uid line "<work_id>-<detail_id>" written in the form of x.
UidLine(x) == [work |-> x, detail |-> [id |-> DetailIdOf(1), form |-> x.form]]

IdLists == {NotGiven} \cup {Given(S) : S \in SUBSET RawIds}

\* generate_work_pages.py, lines 648-656: every line of the file and every
\* item of the inline list goes through slug_id; the file is read and the
\* inline list ignored when both are given (if / elif).
generator_work_scope(inline, file) ==
    LET read(l) == IF l.given THEN Given({CanonicalNumber(slug_id(x)) : x \in l.ids})
                   ELSE NotGiven
        sel == selected_ids([NoArgs EXCEPT !.work_ids = read(inline),
                                           !.work_ids_file = read(file)])
    IN IF sel.given THEN Given({[id |-> n, form |-> "canonical"] : n \in sel.ids})
       ELSE NotGiven

\* run_draft_pipeline.py, lines 104-122: the lines of an ID file, stripped
\* and otherwise unchanged.
read_optional_ids_file(file) == IF file.given THEN file.ids ELSE {}

\* run_draft_pipeline.py, lines 364-367: file lines united with the
\* slug_id of the inline items; an empty result means no filter.
pipeline_work_filter(inline, file) ==
    LET explicit_work_ids ==
            read_optional_ids_file(file)
            \cup (IF inline.given THEN {slug_id(w) : w \in inline.ids} ELSE {})
    IN IF explicit_work_ids # {} THEN Given(explicit_work_ids) ELSE NotGiven

\* copy_draft_media_files.py, lines 80-104 (mode work).
media_copier_selected_ids(file) ==
    IF file.given THEN Given({normalize_id(x) : x \in file.ids}) ELSE NotGiven

\* copy_draft_work_files.py, lines 88-97.
work_copier_selected_ids(file) ==
    IF file.given THEN Given({normalize_id(x) : x \in file.ids}) ELSE NotGiven

\* copy_draft_work_detail_files.py, lines 63-74: detail_uid lines, stripped
\* and otherwise unchanged.
detail_copier_selected_uids(file) ==
    IF file.given THEN Given({UidLine(x) : x \in file.ids}) ELSE NotGiven

\* The detail_uid the detail copier computes for a row (lines 147-149).
detail_uid(raw_work_id, raw_detail_id) ==
    [work |-> normalize_id(raw_work_id), detail |-> normalize_id(raw_detail_id)]

ScopeScripts == {"generator", "pipeline", "media_copier", "work_copier", "detail_copier"}

InitScope ==
    /\ PureGen
    /\ pure \in {[kind |-> "scope_args", inline |-> l, file |-> f] :
                    l \in IdLists, f \in IdLists}

\* One script reads its scope from the inline list and the ID file; the
\* copy scripts take an ID file only.
ReadScope(script) ==
    /\ pure.kind = "scope_args"
    /\ pure' = [kind |-> "scope", script |-> script,
                inline |-> IF script \in {"generator", "pipeline"} THEN pure.inline ELSE NotGiven,
                file |-> pure.file,
                scope |-> CASE script = "generator" -> generator_work_scope(pure.inline, pure.file)
                            [] script = "pipeline" -> pipeline_work_filter(pure.inline, pure.file)
                            [] script = "media_copier" -> media_copier_selected_ids(pure.file)
                            [] script = "work_copier" -> work_copier_selected_ids(pure.file)
                            [] script = "detail_copier" -> detail_copier_selected_uids(pure.file)]
    /\ UNCHANGED genVars

NextScope == \E script \in ScopeScripts : ReadScope(script)

SpecScope == InitScope /\ [][NextScope]_vars

\* The IDs a script read from a list, in the form it keeps them.
IdsAsRead(script, list, inline) ==
    IF ~list.given THEN {}
    ELSE IF script = "pipeline" /\ ~inline THEN list.ids
    ELSE {slug_id(x) : x \in list.ids}

\* The ID a record of the sheet is compared with: the normalized cell.
RecordKey(script, x) ==
    IF script = "detail_copier" THEN detail_uid(x, [id |-> DetailIdOf(1), form |-> x.form])
    ELSE slug_id(x)

\* --------------------------------------------------------------- C11
\* C11 as stated: when an inline ID list and an ID-list file are both
\* given, the working set of the generator and of the orchestrator is the
\* union of the IDs of both.
C11_ScopeIsUnion ==
    (pure.kind = "scope" /\ pure.script \in {"generator", "pipeline"}
     /\ pure.inline.given /\ pure.file.given)
    => (pure.scope.given \/ pure.inline.ids \cup pure.file.ids = {})
       /\ pure.scope.ids = IdsAsRead(pure.script, pure.inline, TRUE)
                           \cup IdsAsRead(pure.script, pure.file, FALSE)

\* --------------------------------------------------------------- C12
\* C12 as stated: in every script that reads a scope, an entry of the
\* inline list or of the ID file selects the record whose canonical ID is
\* the entry's normal form (stated for a scope given by one source, so
\* that the layering of two sources plays no part).
C12_ScopeEntriesNormalized ==
    (pure.kind = "scope" /\ ~(pure.inline.given /\ pure.file.given))
    => \A x \in pure.inline.ids \cup pure.file.ids :
         pure.scope.given /\ RecordKey(pure.script, x) \in pure.scope.ids

\* =====================================================================
\* The draft pipeline (scripts/run_draft_pipeline.py): copy, derivative
\* generation and page generation, one blocking subprocess per stage.
\* The orchestrator's state is kept in `pure`; the generator it launches
\* is the generator above.
\* =====================================================================
Flows == <<"work", "work_details", "moment">>

\* Exit codes a stage's process can return.
ExitCodes == {0, 1, 2}

Running == -1

is_draft_candidate(status, include_published) ==
    status = "draft" \/ (include_published /\ status = "published")

collect_draft_ids(wb, allowed_ids, include_published) ==
    {WorkIdOf(i) : i \in {w \in WorkRows :
        /\ InScope(allowed_ids, WorkIdOf(w))
        /\ is_draft_candidate(normalize_status(wb.works[w].status), include_published)}}

collect_draft_detail_uids(wb, allowed_work_ids, include_published) ==
    {DetailUid(j) : j \in {d \in DetailRows :
        /\ InScope(allowed_work_ids, DetailWorkId(d))
        /\ is_draft_candidate(normalize_status(wb.details[d].status), include_published)}}

collect_draft_moment_ids(wb, allowed_ids, include_published) ==
    {MomentIdOf(m) : m \in {r \in MomentRows :
        /\ InScope(allowed_ids, MomentIdOf(r))
        /\ is_draft_candidate(normalize_status(wb.moments[r].status), include_published)}}

\* Variants used to test the properties below.
work_ids_from_detail_uids_dropped(detail_uids) == {}

run_step_unchecked(code) == FALSE

\* Lines 302-310: the part of a detail_uid before the first "-".
work_ids_from_detail_uids(detail_uids) == {uid[1] : uid \in detail_uids}

\* run_step: subprocess.run(check=True) raises on a non-zero exit code.
run_step_failed(code) == code # 0

\* The manifest the media copier leaves: the selected rows whose source
\* file exists (written in preview mode too).
copied_manifest(selected, src_present) == selected \cap src_present

NoManifests == [work |-> {}, work_details |-> {}, moment |-> {}]

\* main() up to the first stage: flags, filters, draft candidates.
PipelineStart(wb, dry_run, force_generate, work_filter, series_filter, src) ==
    [kind |-> "pipeline", flow |-> 1, step |-> "copy",
     dry_run |-> dry_run, force_generate |-> force_generate,
     work_filter |-> work_filter, series_filter |-> series_filter,
     src |-> src,
     draft |-> [work |-> collect_draft_ids(wb, work_filter,
                             force_generate /\ work_filter.given),
                work_details |-> collect_draft_detail_uids(wb, work_filter,
                             force_generate /\ work_filter.given),
                moment |-> collect_draft_moment_ids(wb, NotGiven, FALSE)],
     copied |-> NoManifests,
     generated |-> NoManifests,
     generate_ids |-> {},
     steps |-> <<>>,
     exit |-> Running]

\* Workbooks the pipeline starts from: works and details draft or
\* published, the pages of the published rows on disk.
PipelineWorkbooks ==
    {[wb |-> Workbook(ws, [k \in SeriesRows |-> "draft"], ds, [m \in MomentRows |-> "draft"],
                      {j \in DetailRows : ds[j] = "published"}, {}, AllDateCols, TRUE),
      files |-> PagesOf({i \in WorkRows : ws[i] = "published"},
                        {j \in DetailRows : ds[j] = "published"}, {})] :
        ws \in [WorkRows -> {"draft", "published"}],
        ds \in [DetailRows -> {"draft", "published"}]}

\* Source media present under the projects folder.
SourceChoices ==
    {[work |-> W, work_details |-> {DetailUid(j) : j \in D}, moment |-> {MomentIdOf(m) : m \in M}] :
        W \in SUBSET {WorkIdOf(i) : i \in WorkRows}, D \in {DetailRows, {1}},
        M \in SUBSET MomentRows}

InitPipeline ==
    /\ \E s \in PipelineWorkbooks :
        /\ wbDisk = s.wb
        /\ wbCells = s.wb
        /\ sheetRows = s.wb
        /\ fs = s.files
        /\ dirs = AllDirs
        /\ \E dry_run \in BOOLEAN, force_generate \in BOOLEAN,
              work_filter \in ScopeChoices({WorkIdOf(1)}),
              series_filter \in ScopeChoices({SeriesIdOf(1)}),
              src \in SourceChoices :
            pure = PipelineStart(s.wb, dry_run, force_generate, work_filter, series_filter, src)
    /\ args = NoArgs
    /\ pc = "idle"
    /\ idx = 0
    /\ log = EmptyLog
    /\ prev = NoPrev
    /\ runNo = 0

StepRan(p, label, code) ==
    [p EXCEPT !.steps = Append(@, [label |-> label, code |-> code])]

\* __main__, lines 642-647: the CalledProcessError ends the process with
\* the failing command's return code.
PipelineFailed(p, code) == [p EXCEPT !.step = "failed", !.exit = code]

\* The end of a flow's block: the next flow, or page generation.
AfterFlow(p) ==
    IF p.flow < Len(Flows)
    THEN [p EXCEPT !.flow = @ + 1, !.step = "copy"]
    ELSE [p EXCEPT !.flow = Len(Flows) + 1, !.step = "generate"]

\* "Copy Draft ... Files": the media copier on the draft candidates.
CopyStage(code) ==
    /\ pure.kind = "pipeline"
    /\ pure.step = "copy"
    /\ LET f == Flows[pure.flow]
           ran == StepRan(pure, <<"copy", f>>, code)
           copied_ids == copied_manifest(pure.draft[f], pure.src[f])
           ok == [ran EXCEPT !.copied[f] = copied_ids]
       IN pure' = IF run_step_failed(code) THEN PipelineFailed(ran, code)
                  ELSE IF copied_ids # {} THEN [ok EXCEPT !.step = "srcset"]
                  ELSE AfterFlow(ok)
    /\ UNCHANGED genVars

\* "Generate Srcset Derivatives": the external tool reports the IDs whose
\* derivatives it produced; a preview run takes the copied IDs instead.
SrcsetStage(code, success_ids) ==
    /\ pure.kind = "pipeline"
    /\ pure.step = "srcset"
    /\ LET f == Flows[pure.flow]
           ran == StepRan(pure, <<"srcset", f>>, code)
           generated_ids == IF pure.dry_run THEN pure.copied[f] ELSE success_ids
       IN /\ success_ids \subseteq pure.copied[f]
          /\ pure' = IF run_step_failed(code) THEN PipelineFailed(ran, code)
                     ELSE AfterFlow([ran EXCEPT !.generated[f] = generated_ids])
    /\ UNCHANGED genVars

\* Variant used to test the properties below: no --work-ids-file.
generate_cmd_unscoped(p, generate_ids) ==
    [NoArgs EXCEPT !.moment_ids_file = Given(p.draft.moment),
                   !.series_ids = p.series_filter,
                   !.write = ~p.dry_run,
                   !.force = p.force_generate]

generate_cmd_moments_from_derivatives(p, generate_ids) ==
    [NoArgs EXCEPT !.work_ids_file = Given(generate_ids),
                   !.moment_ids_file = Given(p.generated.moment),
                   !.series_ids = p.series_filter,
                   !.write = ~p.dry_run,
                   !.force = p.force_generate]

\* Lines 613-636: the command line of the page generator.
generate_cmd(p, generate_ids) ==
    [NoArgs EXCEPT !.work_ids_file = Given(generate_ids),
                   !.moment_ids_file = Given(p.draft.moment),
                   !.series_ids = p.series_filter,
                   !.write = ~p.dry_run,
                   !.force = p.force_generate]

\* "Generate Work Pages": the generator starts (its main() up to the
\* Works loop), or ends with a non-zero code before it processed a row.
GenerateStage(code) ==
    /\ pure.kind = "pipeline"
    /\ pure.step = "generate"
    /\ pc = "idle"
    /\ LET generate_ids == pure.generated.work
                           \cup work_ids_from_detail_uids(pure.generated.work_details)
           ran == [StepRan(pure, <<"generate", "pages">>, code) EXCEPT !.generate_ids = generate_ids]
       IN IF run_step_failed(code)
          THEN /\ pure' = PipelineFailed(ran, code)
               /\ UNCHANGED genVars
          ELSE /\ pure' = [ran EXCEPT !.step = "generating"]
               /\ args' = generate_cmd(pure, generate_ids)
               /\ wbCells' = wbDisk
               /\ sheetRows' = wbDisk
               /\ dirs' = AllDirs
               /\ log' = [EmptyLog EXCEPT !.start_files = DOMAIN fs]
               /\ pc' = "works"
               /\ idx' = 1
               /\ runNo' = runNo + 1
               /\ UNCHANGED <<wbDisk, fs, prev>>

\* The generator returned 0: "Pipeline complete.", main() returns 0.
PipelineComplete ==
    /\ pure.kind = "pipeline"
    /\ pure.step = "generating"
    /\ pc = "idle"
    /\ pure' = [pure EXCEPT !.step = "complete", !.exit = 0]
    /\ UNCHANGED genVars

NextPipeline ==
    \/ \E code \in ExitCodes : CopyStage(code)
    \/ \E code \in ExitCodes :
         \E success_ids \in (IF pure.step = "srcset"
                             THEN SUBSET pure.copied[Flows[pure.flow]] ELSE {}) :
            SrcsetStage(code, success_ids)
    \/ \E code \in ExitCodes : GenerateStage(code)
    \/ WorkRow
    \/ WorksSave
    \/ SeriesRow
    \/ SeriesSave
    \/ SeriesJson
    \/ DetailsSetup
    \/ DetailRow
    \/ DetailsSave
    \/ WorkJson
    \/ MomentRow
    \/ MomentsSave
    \/ Finish
    \/ PipelineComplete

SpecPipeline == InitPipeline /\ [][NextPipeline]_vars

\* ---------------------------------------------------------------------
\* Properties of the pipeline (checked under SpecPipeline)
\* ---------------------------------------------------------------------
FlowIndex(f) == CHOOSE n \in 1..Len(Flows) : Flows[n] = f

\* Position of a stage in the order main() runs the stages.
StageRank(label) ==
    IF label[1] = "generate" THEN 2 * Len(Flows) + 1
    ELSE 2 * (FlowIndex(label[2]) - 1) + (IF label[1] = "copy" THEN 1 ELSE 2)

LastStep(p) == p.steps[Len(p.steps)]

\* C13: the stages run one after another in the order of main(), none
\* twice; a stage is started only if every stage before it exited 0; when
\* a stage exits non-zero the pipeline has exited with that stage's code
\* and the page generator is not running; the pipeline completes with
\* code 0 only when every stage exited 0.
C13_FailFast ==
    pure.kind = "pipeline"
    => /\ \A n \in 1..(Len(pure.steps) - 1) :
            /\ pure.steps[n].code = 0
            /\ StageRank(pure.steps[n].label) < StageRank(pure.steps[n + 1].label)
       /\ (\E n \in 1..Len(pure.steps) : pure.steps[n].code # 0)
            => (pure.step = "failed" /\ pure.exit = LastStep(pure).code /\ pc = "idle"
                /\ runNo = 0)
       /\ pure.step = "failed"
            => (pure.steps # <<>> /\ LastStep(pure).code # 0 /\ pure.exit = LastStep(pure).code)
       /\ pure.step = "complete" => pure.exit = 0
       /\ pure.exit = Running <=> pure.step \notin {"failed", "complete"}
       /\ pc # "idle" => pure.step = "generating"

C13_Witness ==
    /\ pure.kind = "pipeline"
    /\ pure.step = "failed"
    /\ Len(pure.steps) > 2
    /\ LastStep(pure).label[1] = "srcset"
    /\ pure.exit = 2

\* Works the derivative tool reported, and parents of the details it
\* reported.
SucceededWorks(p) ==
    p.generated.work
    \cup {DetailWorkId(j) : j \in {d \in DetailRows : DetailUid(d) \in p.generated.work_details}}

\* Report of the generator run launched by the pipeline.
GeneratorLog == IF pc = "idle" THEN [written |-> prev.written, start_files |-> prev.start_files]
                ELSE [written |-> log.written, start_files |-> log.start_files]

WorkPagePaths(i) == {<<"_works", WorkIdOf(i)>>, <<"_works_print", WorkIdOf(i)>>}

\* C14: in a write-mode pipeline run the work scope of the generator is
\* the set of works the derivative tool reported, united with the parents
\* of the details it reported; a work whose copy or derivative failed and
\* none of whose details succeeded has no page written or created.
C14_GenerationScope ==
    (pure.kind = "pipeline" /\ ~pure.dry_run /\ pure.step \in {"generating", "complete"})
    => /\ pure.generate_ids = SucceededWorks(pure)
       /\ pc # "idle" => (args.work_ids_file = Given(SucceededWorks(pure))
                          /\ selected_ids(args) = Given(SucceededWorks(pure)))
       /\ pure.generated.work \subseteq pure.draft.work \cap pure.src.work
       /\ \A i \in WorkRows :
            ((WorkIdOf(i) \notin pure.src.work \/ WorkIdOf(i) \notin pure.generated.work)
             /\ \A j \in DetailRows : DetailWorkId(j) = WorkIdOf(i)
                                      => DetailUid(j) \notin pure.generated.work_details)
            => \A path \in WorkPagePaths(i) :
                 /\ path \notin GeneratorLog.written
                 /\ Exists(fs, path) => path \in GeneratorLog.start_files

C14_Witness ==
    /\ pure.kind = "pipeline" /\ ~pure.dry_run /\ pure.step = "complete"
    /\ \E i \in WorkRows :
         /\ WorkIdOf(i) \in pure.draft.work /\ WorkIdOf(i) \notin SucceededWorks(pure)
         /\ ~Exists(fs, <<"_works", WorkIdOf(i)>>)
    /\ \E j \in DetailRows :
         /\ DetailUid(j) \in pure.generated.work_details
         /\ DetailWorkId(j) \notin pure.generated.work
         /\ DetailWorkId(j) \in pure.generate_ids
         /\ <<"_works", DetailWorkId(j)>> \in prev.written

\* Details whose derivative succeeded while their parent work's own
\* media was not among the succeeded ones.
OnlyChildChanged(p) ==
    {j \in DetailRows : /\ DetailUid(j) \in p.generated.work_details
                        /\ DetailWorkId(j) \notin p.generated.work}

ParentRow(j) == CHOOSE i \in WorkRows : WorkIdOf(i) = DetailWorkId(j)

\* C15 as stated: when only a child detail succeeded in a write-mode
\* pipeline run, the generator run rewrites the parent work's page.
C15_ParentPageRegenerated ==
    (pure.kind = "pipeline" /\ ~pure.dry_run /\ pure.step = "generating" /\ RunDone)
    => \A j \in OnlyChildChanged(pure) :
         <<"_works", DetailWorkId(j)>> \in log.written

\* C15 amended: ... the parent work is inside the generator's work scope
\* and its work-details index is processed; the parent's page is rewritten
\* iff the parent's status is actionable (draft, or published under
\* --force-generate) and (its stored checksum differs or force is set).
C15_ParentInGenerationScope ==
    (pure.kind = "pipeline" /\ ~pure.dry_run /\ pure.step = "generating" /\ RunDone)
    => \A j \in OnlyChildChanged(pure) :
         LET i == ParentRow(j)
             path == <<"_works", WorkIdOf(i)>>
         IN /\ InScope(selected_ids(args), WorkIdOf(i))
            /\ WorkIdOf(i) \in selected_ids(args).ids
            /\ <<"WorkJson", WorkIdOf(i)>> \in log.processed
            /\ path \in log.written
               <=> (is_actionable_status(normalize_status(sheetRows.works[i].status), args.force)
                    /\ (path \notin log.matched \/ args.force))

C15_Witness ==
    /\ pure.kind = "pipeline" /\ ~pure.dry_run /\ pure.step = "generating" /\ RunDone
    /\ \E j \in OnlyChildChanged(pure) : <<"_works", DetailWorkId(j)>> \in log.written
    /\ \E j \in OnlyChildChanged(pure) :
         /\ <<"_works", DetailWorkId(j)>> \notin log.written
         /\ <<"works_json", DetailWorkId(j)>> \in log.written

\* =====================================================================
\* The media copier (scripts/copy_draft_media_files.py), one sheet row
\* per step.  Checked under SpecCopy.
\* =====================================================================
NumCopyRows == 3

CopyRows == 1..NumCopyRows

\* ID of a sheet row in the copier's mode: work_id, or detail_uid.
CopyRowId(mode, r) == IF mode = "work" THEN WorkIdOf(r) ELSE DetailUid(r)

CopyIds(mode) == {CopyRowId(mode, r) : r \in CopyRows}

\* Variant used to test the property below.
source_never_missing(src_present, id) == FALSE

\* `not src.exists()`
source_missing(src_present, id) == id \notin src_present

InitCopy ==
    /\ PureGen
    /\ \E mode \in {"work", "work_details"}, write \in BOOLEAN,
          blank \in {{}, {2}}, no_folder \in {{}, {NumCopyRows}} :
         \E sel \in SUBSET CopyIds(mode), filtered \in BOOLEAN, src \in SUBSET CopyIds(mode) :
            /\ (mode = "work" => no_folder = {})
            /\ (~filtered => sel = {})
            /\ pure = [kind |-> "copier", mode |-> mode, write |-> write,
                       selected_ids |-> IF filtered THEN Given(sel) ELSE NotGiven,
                       src_present |-> src,
                       blank |-> blank, no_folder |-> no_folder,
                       idx |-> 1, total |-> 0, copied |-> 0, missing_src |-> 0,
                       copied_ids |-> <<>>, dest |-> {}, manifest |-> None,
                       exit |-> Running]

\* The counted part of an iteration (lines 133-147 and 209-223).
CopyCounted(p, id) ==
    IF source_missing(p.src_present, id)
    THEN [p EXCEPT !.total = @ + 1, !.missing_src = @ + 1]
    ELSE [p EXCEPT !.total = @ + 1,
                   !.copied_ids = Append(@, id),
                   !.copied = IF p.write THEN @ + 1 ELSE @,
                   !.dest = IF p.write THEN @ \cup {id} ELSE @]

\* copy_work, lines 119-147: one iteration of the Works loop.
copy_work ==
    /\ pure.kind = "copier" /\ pure.mode = "work"
    /\ pure.exit = Running
    /\ pure.idx \in CopyRows
    /\ LET r == pure.idx
           wid == CopyRowId("work", r)
           next == [pure EXCEPT !.idx = @ + 1]
       IN pure' = IF r \in pure.blank THEN next
                  ELSE IF ~InScope(pure.selected_ids, wid) THEN next
                  ELSE CopyCounted(next, wid)
    /\ UNCHANGED genVars

\* copy_work_details, lines 181-223: one iteration of the WorkDetails loop.
copy_work_details ==
    /\ pure.kind = "copier" /\ pure.mode = "work_details"
    /\ pure.exit = Running
    /\ pure.idx \in CopyRows
    /\ LET r == pure.idx
           uid == CopyRowId("work_details", r)
           next == [pure EXCEPT !.idx = @ + 1]
       IN pure' = IF r \in pure.blank THEN next
                  ELSE IF ~InScope(pure.selected_ids, uid) THEN next
                  ELSE IF r \in pure.no_folder THEN next
                  ELSE CopyCounted(next, uid)
    /\ UNCHANGED genVars

\* main, lines 325-334: the manifest of copied IDs, the summary, return 0.
CopierExit ==
    /\ pure.kind = "copier"
    /\ pure.exit = Running
    /\ pure.idx > NumCopyRows
    /\ pure' = [pure EXCEPT !.manifest = pure.copied_ids, !.exit = 0]
    /\ UNCHANGED genVars

NextCopy ==
    \/ copy_work
    \/ copy_work_details
    \/ CopierExit

SpecCopy == InitCopy /\ [][NextCopy]_vars

\* Rows before row k that pass the filters of the loop.
CountedRows(p, k) ==
    {r \in 1..(k - 1) : /\ r \notin p.blank
                        /\ InScope(p.selected_ids, CopyRowId(p.mode, r))
                        /\ ~(p.mode = "work_details" /\ r \in p.no_folder)}

MissingRows(p, k) == {r \in CountedRows(p, k) : CopyRowId(p.mode, r) \notin p.src_present}

RECURSIVE IdsInRowOrder(_, _, _)
IdsInRowOrder(mode, R, r) ==
    IF r > NumCopyRows THEN <<>>
    ELSE (IF r \in R THEN <<CopyRowId(mode, r)>> ELSE <<>>) \o IdsInRowOrder(mode, R, r + 1)

\* C16: after any number of rows, every counted row whose source file is
\* absent has added one to the missing-source counter and nothing to the
\* copied counter, the manifest or the destination folder; every counted
\* row with a source file is in the manifest, also when an earlier row
\* had none; the copier reaches the end of the sheet and exits 0.
C16_MissingSourceFailsSoft ==
    pure.kind = "copier"
    => LET counted == CountedRows(pure, pure.idx)
           missing == MissingRows(pure, pure.idx)
       IN /\ pure.total = Cardinality(counted)
          /\ pure.missing_src = Cardinality(missing)
          /\ pure.copied_ids = IdsInRowOrder(pure.mode, counted \ missing, 1)
          /\ pure.copied = IF pure.write THEN Len(pure.copied_ids) ELSE 0
          /\ pure.dest = IF pure.write THEN {CopyRowId(pure.mode, r) : r \in counted \ missing} ELSE {}
          /\ pure.exit \in {Running, 0}
          /\ pure.exit = 0 => (pure.idx = NumCopyRows + 1 /\ pure.manifest = pure.copied_ids)
          /\ pure.exit = Running => pure.manifest = None

C16_Witness ==
    /\ pure.kind = "copier" /\ pure.exit = 0 /\ pure.write
    /\ pure.missing_src = 1 /\ pure.copied = 1
    /\ \E r1, r2 \in CountedRows(pure, pure.idx) :
         /\ r1 < r2
         /\ r1 \in MissingRows(pure, pure.idx)
         /\ pure.manifest = <<CopyRowId(pure.mode, r2)>>

\* =====================================================================
\* Prose include files (checked under SpecProse: the generator started
\* on trees that hold prose files written by the author)
\* =====================================================================
ProsePath(rec) ==
    CASE rec[1] = "Works" -> <<"work_prose", WorkIdOf(rec[2])>>
      [] rec[1] = "Series" -> <<"series_prose", SeriesIdOf(rec[2])>>
      [] rec[1] = "Moments" -> <<"moments_prose", MomentIdOf(rec[2])>>

ProseRecords ==
    {<<"Works", i>> : i \in WorkRows} \cup {<<"Series", k>> : k \in SeriesRows}
    \cup {<<"Moments", m>> : m \in MomentRows}

AuthorProse(rec) == <<"prose written by the author", rec>>

ProsePlaceholder(rec) ==
    CASE rec[1] = "Series" -> <<"series prose placeholder", SeriesIdOf(rec[2])>>
      [] rec[1] = "Moments" -> <<"moment prose placeholder", MomentIdOf(rec[2])>>
      [] OTHER -> None

ProseFiles(R) ==
    [p \in {ProsePath(rec) : rec \in R} |->
        AuthorProse(CHOOSE rec \in R : ProsePath(rec) = p)]

InitProse ==
    /\ \E ss \in [SeriesRows -> {"draft", "published"}], ms \in [MomentRows -> {"draft", "published"}],
          R \in SUBSET ProseRecords :
         LET wb == Workbook([i \in WorkRows |-> "draft"], ss, [j \in DetailRows |-> "draft"], ms,
                            {}, {}, AllDateCols, TRUE)
         IN /\ wbDisk = wb
            /\ wbCells = wb
            /\ sheetRows = wb
            /\ fs = ProseFiles(R)
            /\ dirs = AllDirs
    /\ args = NoArgs
    /\ pc = "idle"
    /\ idx = 0
    /\ log = EmptyLog
    /\ prev = NoPrev
    /\ runNo = 0
    /\ pure = NoPure

SpecProse == InitProse /\ [][Next]_vars

\* C17: no step of any run changes or removes an existing prose file;
\* a prose file appears only as the placeholder of a series or moment
\* row processed in that step of a write-mode run, and every series or
\* moment row processed in write mode has a prose file afterwards.
C17_ProseNeverOverwritten ==
    [][\A rec \in ProseRecords :
         LET p == ProsePath(rec)
             processed_now == rec \in log'.processed /\ rec \notin log.processed
         IN /\ Exists(fs, p) => (Exists(fs', p) /\ fs'[p] = fs[p])
            /\ (~Exists(fs, p) /\ Exists(fs', p))
               => (fs'[p] = ProsePlaceholder(rec) /\ args.write /\ processed_now
                   /\ rec[1] # "Works")
            /\ (processed_now /\ args.write /\ rec[1] # "Works") => Exists(fs', p)]_vars

C17_Witness ==
    /\ RunDone /\ args.write /\ args.force /\ runNo = MaxRuns
    /\ <<"Series", 1>> \in log.processed /\ <<"Series", 2>> \in log.processed
    /\ <<"_series", SeriesIdOf(1)>> \in log.written
    /\ fs[ProsePath(<<"Series", 1>>)] = AuthorProse(<<"Series", 1>>)
    /\ fs[ProsePath(<<"Series", 2>>)] = ProsePlaceholder(<<"Series", 2>>)
    /\ <<"Moments", 1>> \in log.processed
    /\ fs[ProsePath(<<"Moments", 1>>)] = AuthorProse(<<"Moments", 1>>)

\* =====================================================================
\* Mutations of the workbook (checked under Spec)
\* =====================================================================
HasDims(rec) == rec[1] \in {"WorkDetails", "Moments"}

ImageDims(rec) == IF rec[1] = "WorkDetails" THEN DetailImageDims(rec[2]) ELSE MomentImageDims(rec[2])

DimsOf(wb, rec) == CellsOf(wb, rec).dims

\* The status and date cells of the record changed only as a publication
\* of a page written in this write-mode run.
PublicationOnly(rec) ==
    /\ CellsOf(wbCells, rec).status # CellsOf(sheetRows, rec).status
       => (CellsOf(wbCells, rec).status = "published"
           /\ args.write /\ PagePath(rec) \in log.written)
    /\ DateOf(wbCells, rec) # DateOf(sheetRows, rec)
       => (args.write /\ PagePath(rec) \in log.written
           /\ StatusOf(wbCells, rec) = "published")

\* C18 as stated: a status cell changes only from draft to published, a
\* date cell only together with it, only for a record whose page was
\* written; no other cell changes and no column is added.
C18_OnlyStatusTransition ==
    /\ \A rec \in PageRecords :
         /\ PublicationOnly(rec)
         /\ CellsOf(wbCells, rec).status # CellsOf(sheetRows, rec).status
            => normalize_status(CellsOf(sheetRows, rec).status) = "draft"
         /\ DateOf(wbCells, rec) # DateOf(sheetRows, rec)
            => StatusOf(sheetRows, rec) = "draft"
         /\ HasDims(rec) => DimsOf(wbCells, rec) = DimsOf(sheetRows, rec)
    /\ wbCells.dims_cols = sheetRows.dims_cols
    /\ wbCells.date_cols = sheetRows.date_cols

\* C18 amended: ... besides the publication of a written record (status
\* set to published, date stamped, the date again under force), a
\* write-mode run sets the width_px / height_px cells of every processed
\* WorkDetails or Moments row to the readable dimensions of its source
\* image, written page or not, and adds the two header columns where
\* missing; nothing else changes, and a preview run changes no cell.
C18_WorkbookMutations ==
    /\ \A rec \in PageRecords :
         /\ PublicationOnly(rec)
         /\ DOMAIN CellsOf(wbCells, rec) = DOMAIN CellsOf(sheetRows, rec)
         /\ HasDims(rec) =>
              /\ DimsOf(wbCells, rec) # DimsOf(sheetRows, rec)
                 => (args.write /\ rec \in log.processed
                     /\ ~ImageDims(rec).none /\ DimsOf(wbCells, rec) = ImageDims(rec))
              /\ (args.write /\ rec \in log.processed /\ ~ImageDims(rec).none)
                 => DimsOf(wbCells, rec) = ImageDims(rec)
              /\ rec \in log.dims_updated <=> DimsOf(wbCells, rec) # DimsOf(sheetRows, rec)
    /\ wbCells.dims_cols # sheetRows.dims_cols
       => (args.write /\ wbCells.dims_cols /\ pc \in {"details", "work_json", "moments", "done"})
    /\ wbCells.date_cols = sheetRows.date_cols
    /\ ~args.write => (wbCells = sheetRows /\ wbDisk = sheetRows)
    /\ wbDisk # sheetRows => (args.write /\ log.saves > 0)

C18_Witness ==
    /\ RunDone /\ args.write /\ ~args.force
    /\ \E rec \in PageRecords :
         /\ HasDims(rec)
         /\ DimsOf(wbCells, rec) # DimsOf(sheetRows, rec)
         /\ PagePath(rec) \notin log.written
         /\ CellsOf(wbCells, rec).status = CellsOf(sheetRows, rec).status
    /\ \E rec \in PageRecords :
         /\ StatusOf(sheetRows, rec) = "draft" /\ StatusOf(wbCells, rec) = "published"
         /\ PagePath(rec) \in log.written

\* ---------------------------------------------------------------------
\* Saving the workbook (checked under Spec)
\* ---------------------------------------------------------------------
\* A status or published_date cell was changed in memory during the run.
StatusOrDateChanged == log.status_updated # {} \/ log.date_updated # {}

\* Every published_date and status cell of the saved workbook holds the
\* value the run left in memory.
ChangesPersisted ==
    \A rec \in PageRecords :
        /\ DateOf(wbDisk, rec) = DateOf(wbCells, rec)
        /\ CellsOf(wbDisk, rec).status = CellsOf(wbCells, rec).status

\* C19, its persistence part: at the end of a write-mode run every
\* status and published_date value changed in memory is in the saved
\* workbook, the workbook having been saved if any of them changed.
C19_EveryChangePersisted ==
    (RunDone /\ args.write)
    => /\ ChangesPersisted
       /\ StatusOrDateChanged => log.saves > 0

\* =====================================================================
\* Missing required columns (checked under SpecColumns: the generator on
\* workbooks whose sheets lack a required column; `pure` holds the set
\* of missing columns, the header rows never being rewritten)
\* =====================================================================
RequiredColumnChoices ==
    {{}, {<<"Works", "status">>}, {<<"WorkDetails", "status">>}, {<<"Moments", "status">>},
     {<<"WorkDetails", "title">>}, {<<"Moments", "date">>}}

\* Lines 603-608: the status columns, tested after the sheets are loaded.
StatusColumnMissing(missing) == \E c \in missing : c[2] = "status"

\* Lines 1165-1168: required_details, tested when the WorkDetails block starts.
DetailsColumnMissing(missing) == \E c \in missing : c[1] = "WorkDetails"

\* Lines 1459-1473: required_moments, tested when the Moments block
\* starts, and only if the run includes the moments.
MomentsColumnMissing(missing) == \E c \in missing : c[1] = "Moments"

InitColumns ==
    /\ LET wb == Workbook([i \in WorkRows |-> "draft"], [k \in SeriesRows |-> "draft"],
                          [j \in DetailRows |-> "draft"], [m \in MomentRows |-> "draft"],
                          {}, {}, AllDateCols, TRUE)
       IN /\ wbDisk = wb
          /\ wbCells = wb
          /\ sheetRows = wb
          /\ fs = PagesOf({}, {}, {})
          /\ dirs = {}
    /\ args = NoArgs
    /\ pc = "idle"
    /\ idx = 0
    /\ log = EmptyLog
    /\ prev = NoPrev
    /\ runNo = 0
    /\ pure \in {[kind |-> "columns", missing |-> M] : M \in RequiredColumnChoices}

\* raise SystemExit(...): the process ends where it stands.
Abort ==
    /\ pc' = "aborted"
    /\ UNCHANGED <<wbDisk, wbCells, sheetRows, fs, dirs, args, idx, log, prev, runNo, pure>>

\* Lines 506-720 with the test of lines 603-608; the output directories
\* are created (lines 556-582) before the sheets are read.
StartRunChecked(a) ==
    IF StatusColumnMissing(pure.missing)
    THEN /\ pc = "idle"
         /\ runNo < MaxRuns
         /\ prev.ran => SameButWrite(prev.args, a)
         /\ args' = a
         /\ dirs' = AllDirs
         /\ log' = [EmptyLog EXCEPT !.start_files = DOMAIN fs]
         /\ runNo' = runNo + 1
         /\ pc' = "aborted"
         /\ UNCHANGED <<wbDisk, wbCells, sheetRows, fs, idx, prev, pure>>
    ELSE StartRun(a)

\* Lines 1162-1220 with the test of lines 1165-1168.
DetailsSetupChecked ==
    IF DetailsColumnMissing(pure.missing)
    THEN pc = "details_setup" /\ Abort
    ELSE DetailsSetup

\* Lines 1455-1673 with the test of lines 1459-1473 at the head of the
\* Moments block.
MomentRowChecked ==
    IF MomentsColumnMissing(pure.missing)
    THEN pc = "moments" /\ idx = 1 /\ Abort
    ELSE MomentRow

NextColumns ==
    \/ \E a \in ArgChoices : StartRunChecked(a)
    \/ WorkRow
    \/ WorksSave
    \/ SeriesRow
    \/ SeriesSave
    \/ SeriesJson
    \/ DetailsSetupChecked
    \/ DetailRow
    \/ DetailsSave
    \/ WorkJson
    \/ MomentRowChecked
    \/ MomentsSave
    \/ Finish

SpecColumns == InitColumns /\ [][NextColumns]_vars

\* C20: a run on a workbook with a missing required column never reaches
\* its end, and when it aborts no output file has been written or
\* created, no workbook cell has been changed and the workbook has not
\* been saved.
C20_AbortBeforeAnyEffect ==
    pure.kind = "columns"
    => /\ (RunDone => pure.missing = {})
       /\ pc = "aborted"
          => (/\ args.write => log.written = {}
              /\ DOMAIN fs = log.start_files
              /\ wbCells = sheetRows
              /\ wbDisk = sheetRows
              /\ log.saves = 0)

\* =====================================================================
\* ID normalization, character by character (C21, C29).  A cell value or
\* a line of an ID file is the sequence of the characters of str(value);
\* an empty cell (None) is NoCell.  The digit-string forms of SpecScope
\* ("short", "canonical") are the values on which the normalizers below
\* only pad.
\* =====================================================================
MaxIdLen == 4

IdChars == {"0", "1", ".", "a", "'", " "}

IdDigits == {"0", "1"}

NoCell == <<"None">>

\* raise ValueError(...)
ValueError == <<"ValueError">>

CellValues == {NoCell} \cup UNION {[1..n -> IdChars] : n \in 0..MaxIdLen}

\* The widths in use: 5 for a work_id, 3 for a detail_id.
IdWidths == {3, 5}

isdigit(s) == s # <<>> /\ \A i \in 1..Len(s) : s[i] \in IdDigits

\* str.strip()
strip(s) ==
    LET keep == {i \in 1..Len(s) : s[i] \notin {" ", "\n"}}
    IN IF keep = {} THEN <<>>
       ELSE SubSeq(s, CHOOSE i \in keep : \A j \in keep : i <= j,
                      CHOOSE i \in keep : \A j \in keep : i >= j)

\* str.zfill(width) of a string without sign
zfill(s, width) ==
    IF Len(s) >= width THEN s ELSE [i \in 1..(width - Len(s)) |-> "0"] \o s

\* s with a final ".0" removed (re.sub(r"\.0$", "", s); s[:-2])
strip_point_zero(s) ==
    IF Len(s) >= 2 /\ s[Len(s) - 1] = "." /\ s[Len(s)] = "0"
    THEN SubSeq(s, 1, Len(s) - 2) ELSE s

\* normalize_text: trimmed, one leading apostrophe dropped.
normalize_text(value) ==
    IF value = NoCell THEN <<>>
    ELSE LET s == strip(value)
         IN IF Len(s) > 1 /\ s[1] = "'" THEN Tail(s) ELSE s

slug_id_unpadded(raw, width) ==
    IF raw \in {NoCell, ValueError} THEN ValueError
    ELSE LET s == SelectSeq(strip_point_zero(normalize_text(raw)),
                            LAMBDA c : c \in IdDigits)
         IN IF s = <<>> THEN ValueError ELSE s

\* slug_id(raw, width) of the generator and of the orchestrator, on
\* characters: digits only, zero-padded; ValueError when no digit is left.
slug_id_chars(raw, width) ==
    IF raw \in {NoCell, ValueError} THEN ValueError
    ELSE LET s == SelectSeq(strip_point_zero(normalize_text(raw)),
                            LAMBDA c : c \in IdDigits)
         IN IF s = <<>> THEN ValueError ELSE zfill(s, width)

\* normalize_id(value, width) of the media copier, on characters: a digit
\* string is zero-padded, anything else is kept as it is.
normalize_id_chars(value, width) ==
    LET s == strip_point_zero(normalize_text(value))
    IN IF isdigit(s) THEN zfill(s, width) ELSE s

InitIds ==
    /\ PureGen
    /\ pure \in {[kind |-> "id_cell", raw |-> v, width |-> w] :
                    v \in CellValues, w \in IdWidths}

\* The orchestrator and the generator compute slug_id of the cell (and,
\* reading their own manifest line back, slug_id of that); the media
\* copier computes normalize_id of the same cell.
NormalizeIds ==
    /\ pure.kind = "id_cell"
    /\ pure' = [kind |-> "ids", raw |-> pure.raw, width |-> pure.width,
                slug |-> slug_id_chars(pure.raw, pure.width),
                slug_twice |-> slug_id_chars(slug_id_chars(pure.raw, pure.width),
                                             pure.width),
                normalized |-> normalize_id_chars(pure.raw, pure.width)]
    /\ UNCHANGED genVars

NextIds == NormalizeIds

SpecIds == InitIds /\ [][NextIds]_vars

\* A raw numeric ID value: an integer or a whole float as Excel gives it
\* (361, 361.0, '00361).
IsNumericId(v) == isdigit(strip_point_zero(normalize_text(v)))

\* The digits of a numeric ID value.
DigitsOf(v) == strip_point_zero(normalize_text(v))

\* --------------------------------------------------------------- C21
\* C21 as stated: for every raw numeric ID value and width, slug_id is a
\* string of exactly width digits, and slug_id of it is the same string.
C21_FixedWidthIdempotent ==
    (pure.kind = "ids" /\ IsNumericId(pure.raw))
    => /\ isdigit(pure.slug)
       /\ Len(pure.slug) = pure.width
       /\ pure.slug_twice = pure.slug

\* C21 amended: for every raw numeric ID value and width, slug_id is the
\* value's digits zero-padded on the left to at least width digits
\* (exactly width when the value has no more than width digits, all of
\* the value's digits otherwise), and slug_id of it is the same string.
C21_PaddedIdempotent ==
    (pure.kind = "ids" /\ IsNumericId(pure.raw))
    => /\ isdigit(pure.slug)
       /\ Len(pure.slug) = (IF Len(DigitsOf(pure.raw)) > pure.width
                            THEN Len(DigitsOf(pure.raw)) ELSE pure.width)
       /\ SubSeq(pure.slug, Len(pure.slug) - Len(DigitsOf(pure.raw)) + 1,
                 Len(pure.slug)) = DigitsOf(pure.raw)
       /\ \A i \in 1..(Len(pure.slug) - Len(DigitsOf(pure.raw))) : pure.slug[i] = "0"
       /\ pure.slug_twice = pure.slug

\* A whole float one digit long padded to width 5 (the '361.0' case).
C21_Witness ==
    /\ pure.kind = "ids"
    /\ pure.raw = <<"1", ".", "0">>
    /\ pure.width = 5
    /\ pure.slug = <<"0", "0", "0", "0", "1">>
    /\ pure.slug_twice = pure.slug

\* --------------------------------------------------------------- C29
\* C29 as stated: for every raw work_id or detail_id cell value for which
\* the orchestrator and the generator compute a canonical ID (slug_id),
\* the media copier's normalize_id of the same cell is that same ID.
C29_NormalizersAgree ==
    (pure.kind = "ids" /\ pure.slug # ValueError)
    => pure.normalized = pure.slug

\* =====================================================================
\* Work-details JSON index files (C22), on Spec.
\* =====================================================================
\* The work has a detail row whose status cell reads published.
HasPublishedDetail(wb, wid) ==
    \E j \in DetailRows :
        DetailWorkId(j) = wid /\ StatusOf(wb, <<"WorkDetails", j>>) = "published"

\* C22: a write-mode run writes the work-details JSON index of a work_id
\* only if the work has at least one detail row with status published at
\* the time of writing.
C22_WorkJsonOnlyWithPublishedDetails ==
    args.write
    => \A wid \in WorkRows :
         <<"works_json", wid>> \in log.written => HasPublishedDetail(wbCells, wid)

\* =====================================================================
\* The Works loop over raw work_id cells (C23): the sheet may hold any
\* cell text, and nothing in the loop compares the IDs of two rows.
\* =====================================================================
NumIdRows == 2

IdRows == 1..NumIdRows

\* work_id cells: 1, 1.0 and a1 have the canonical ID 00001, 10 has 00010.
RawIdCells == {<<"1">>, <<"1", ".", "0">>, <<"a", "1">>, <<"1", "0">>}

RowTitles == {"title A", "title B"}

InitRows ==
    /\ PureGen
    /\ pure \in {[kind |-> "rows", cells |-> c, titles |-> t, write |-> w, force |-> f,
                  idx |-> 1, files |-> <<>>, writes |-> {}] :
                    c \in [IdRows -> RawIdCells], t \in [IdRows -> RowTitles],
                    w \in BOOLEAN, f \in BOOLEAN}

\* generate_work_pages.py, lines 723-813: one iteration of the Works loop
\* for a draft row: the path is built from slug_id of the cell, the page
\* is written unless its checksum matches and --force is off.
WorkRowOfCell ==
    /\ pure.kind = "rows"
    /\ pure.idx \in IdRows
    /\ LET r == pure.idx
           wid == slug_id_chars(pure.cells[r], 5)
           out_path == <<"_works", wid>>
           content == Page([work_id |-> wid, title |-> pure.titles[r]], <<>>)
           w == write_page(pure.files, out_path, content, pure.write, pure.force)
       IN pure' = [pure EXCEPT
                     !.idx = r + 1,
                     !.files = w.files,
                     !.writes = @ \cup Count(w.written, [row |-> r, path |-> out_path])]
    /\ UNCHANGED genVars

NextRows == WorkRowOfCell

SpecRows == InitRows /\ [][NextRows]_vars

\* C23: within one write-mode run every output file is written by at
\* most one row: no two rows processed in the run write the same path.
C23_OneWriterPerFile ==
    (pure.kind = "rows" /\ pure.write)
    => \A e1 \in pure.writes, e2 \in pure.writes :
         e1.path = e2.path => e1.row = e2.row

\* =====================================================================
\* Records with an unrecognized status (C24), on Spec.
\* =====================================================================
UnknownStatus(rec) == StatusOf(sheetRows, rec) \notin {"draft", "published"}

\* C24: a write-mode run, with or without --force, writes no page for a
\* record whose status is neither draft nor published, and no series
\* JSON index for a series with such a status.
C24_UnknownStatusSkipped ==
    args.write
    => \A rec \in PageRecords :
         UnknownStatus(rec)
         => /\ PagePath(rec) \notin log.written
            /\ rec[1] = "Series" => <<"series_json", SeriesIdOf(rec[2])>> \notin log.written

\* =====================================================================
\* The content of the series JSON indexes (C25): a Works sheet whose rows
\* are in any order of work_id and share series, run through the Works
\* loop (status updates) and then the series JSON loop.
\* =====================================================================
NumJsonRows == 3

JsonRows == 1..NumJsonRows

JsonSeriesIds == {1, 2}

published_work_ids_in_row_order(rows, sid) ==
    LET RECURSIVE in_row_order(_)
        in_row_order(i) ==
            IF i > Len(rows) THEN <<>>
            ELSE (IF normalize_status(rows[i].status) = "published" /\ rows[i].series_id = sid
                  THEN <<rows[i].work_id>> ELSE <<>>) \o in_row_order(i + 1)
    IN in_row_order(1)

\* Lines 1081-1103: work_ids_by_series[sid] of a sheet given by its rows:
\* the work_id of every row whose live status cell reads published,
\* appended in row order, then sorted.
sorted_work_ids_by_series(rows, sid) ==
    Sorted(published_work_ids_in_row_order(rows, sid))

\* Lines 1124-1134: the payload of one series JSON index.
series_json_payload(rows, sid) ==
    LET work_ids == sorted_work_ids_by_series(rows, sid)
    IN [header |-> [series_id |-> sid,
                    count |-> Len(work_ids),
                    hash |-> compute_series_hash(sid, work_ids)],
        work_ids |-> work_ids]

\* The sheets a run can load: every order of the work_ids, every
\* assignment of series, draft and published rows; the page of the first
\* row may be on disk and up to date.
InitSeriesJson ==
    /\ PureGen
    /\ pure \in {[kind |-> "series_run", step |-> "works", idx |-> 1,
                  loaded |-> [r \in JsonRows |->
                                [work_id |-> p[r], series_id |-> s[r], status |-> st[r],
                                 published_date |-> ""]],
                  works |-> [r \in JsonRows |->
                                [work_id |-> p[r], series_id |-> s[r], status |-> st[r],
                                 published_date |-> ""]],
                  pages |-> pg, write |-> w, force |-> f, json |-> <<>>] :
                    p \in Perms(NumJsonRows), s \in [JsonRows -> JsonSeriesIds],
                    st \in [JsonRows -> {"draft", "published"}],
                    pg \in {{}, {1}}, w \in BOOLEAN, f \in BOOLEAN}

\* Lines 723-863: one iteration of the Works loop, as far as the status
\* cell goes: an actionable row whose page is written is published.
WorkRowStatus ==
    /\ pure.kind = "series_run"
    /\ pure.step = "works"
    /\ LET r == pure.idx
           status == normalize_status(pure.loaded[r].status)
           act == is_actionable_status(status, pure.force)
           written == ~(r \in pure.pages /\ ~pure.force)
           upd == act /\ status_update_due(written, pure.write)
       IN pure' = [pure EXCEPT
                     !.idx = IF r = NumJsonRows THEN 1 ELSE r + 1,
                     !.step = IF r = NumJsonRows THEN "series_json" ELSE "works",
                     !.pages = IF act /\ written /\ pure.write THEN @ \cup {r} ELSE @,
                     !.works[r] = IF upd THEN Publish(@, TRUE, pure.force) ELSE @]
    /\ UNCHANGED genVars

\* Lines 1105-1157: the series JSON loop for published series whose
\* index is not on disk: one payload per series.
SeriesJsonOfRows ==
    /\ pure.kind = "series_run"
    /\ pure.step = "series_json"
    /\ pure' = [pure EXCEPT
                  !.step = "done",
                  !.json = [sid \in JsonSeriesIds |-> series_json_payload(pure.works, sid)]]
    /\ UNCHANGED genVars

NextSeriesJson == WorkRowStatus \/ SeriesJsonOfRows

SpecSeriesJson == InitSeriesJson /\ [][NextSeriesJson]_vars

\* The work_ids of the rows of a series whose status reads published.
PublishedOf(rows, sid) ==
    {rows[r].work_id : r \in {x \in DOMAIN rows :
        normalize_status(rows[x].status) = "published" /\ rows[x].series_id = sid}}

Ascending(seq) == \A a, b \in 1..Len(seq) : a < b => seq[a] < seq[b]

\* C25: every series JSON index of a run lists exactly the work_ids of
\* the series whose status is published when the index is written (the
\* status updates of the same run included), in ascending order whatever
\* the order of the rows, with header.count the number of listed IDs and
\* header.hash compute_series_hash of the series ID and the list.
C25_SeriesJsonContent ==
    (pure.kind = "series_run" /\ pure.step = "done")
    => \A sid \in JsonSeriesIds :
         LET j == pure.json[sid]
         IN /\ {j.work_ids[n] : n \in 1..Len(j.work_ids)} = PublishedOf(pure.works, sid)
            /\ Ascending(j.work_ids)
            /\ j.header.count = Len(j.work_ids)
            /\ j.header.series_id = sid
            /\ j.header.hash = compute_series_hash(sid, j.work_ids)

\* A series with three works in descending row order, the first a draft
\* published by this run, all three listed in ascending order.
C25_Witness ==
    /\ pure.kind = "series_run" /\ pure.step = "done"
    /\ pure.write
    /\ pure.loaded[1].status = "draft" /\ pure.works[1].status = "published"
    /\ pure.loaded[1].work_id = 3 /\ pure.loaded[2].work_id = 2
    /\ \A r \in JsonRows : pure.loaded[r].series_id = 1
    /\ pure.json[1].work_ids = <<1, 2, 3>>

\* =====================================================================
\* The moment scope of the generation stage (C26), on SpecPipeline.
\* =====================================================================
\* The draft moments of the sheet the pipeline loaded.
DraftMoments(wb) ==
    {MomentIdOf(m) : m \in {r \in MomentRows : normalize_status(wb.moments[r].status) = "draft"}}

\* C26: the generation stage is handed the selected draft moments, not
\* the copied or derivative-succeeded ones: every draft moment, also one
\* whose image was not copied or whose derivative did not succeed, is in
\* the moment scope of the generator the pipeline starts.
C26_MomentsDrivenByDrafts ==
    pure.kind = "pipeline"
    => /\ runNo = 0 => pure.draft.moment = DraftMoments(wbDisk)
       /\ (pure.step = "generating" /\ pc # "idle")
          => (/\ args.moment_ids_file = Given(pure.draft.moment)
              /\ selected_moment_ids(args) = Given(pure.draft.moment)
              /\ run_moments(args))

\* A write-mode pipeline run in which the image of a draft moment was
\* missing (nothing copied, no derivative) and the generator still wrote
\* the moment's page.
C26_Witness ==
    /\ pure.kind = "pipeline" /\ ~pure.dry_run /\ pure.step = "complete"
    /\ \E m \in MomentRows :
         /\ MomentIdOf(m) \in pure.draft.moment
         /\ MomentIdOf(m) \notin pure.src.moment
         /\ MomentIdOf(m) \notin pure.copied.moment
         /\ MomentIdOf(m) \notin pure.generated.moment
         /\ <<"_moments", MomentIdOf(m)>> \in prev.written

\* =====================================================================
\* The checksum round trip through the page text (C27).  A text is a
\* sequence of tokens: "---", "\n", " ", the quote, "checksum:" and other
\* keys, and words; a cell value is any sequence of words, "---",
\* line breaks and "checksum:"; the digest is a hex word.
\* =====================================================================
MaxValueLen == 3

ValueTokens == {"a", "---", "\n", "checksum:"}

FieldValues == UNION {[1..n -> ValueTokens] : n \in 0..MaxValueLen}

PageBodies == {<<>>, <<"include", "\n">>}

HexDigest == <<"0f3a">>

\* Python's None as the result of a function on text.
NoneText == <<"None">>

\* dump_scalar with coerce_string and yaml_quote, for a string key.
dump_scalar(key, value) ==
    LET sv == strip(value)
    IN IF sv = <<>> THEN <<key, " ", "null">>
       ELSE <<key, " ", "\"">> \o sv \o <<"\"">>

\* build_front_matter of a document with a title and a checksum.
build_front_matter(title, checksum) ==
    <<"---", "\n">> \o dump_scalar("title:", title) \o <<"\n">>
    \o dump_scalar("checksum:", checksum) \o <<"\n", "---", "\n">>

\* str.splitlines()
RECURSIVE splitlines(_)
splitlines(s) ==
    LET breaks == {i \in 1..Len(s) : s[i] = "\n"}
    IN IF s = <<>> THEN <<>>
       ELSE IF breaks = {} THEN <<s>>
       ELSE LET b == CHOOSE i \in breaks : \A j \in breaks : i <= j
            IN <<SubSeq(s, 1, b - 1)>> \o splitlines(SubSeq(s, b + 1, Len(s)))

\* extract_existing_checksum on the text of a page: the text between the
\* first two "---", line by line, the first line starting "checksum:".
extract_existing_checksum_text(text) ==
    IF text = <<>> \/ text[1] # "---" THEN NoneText
    ELSE LET later == {i \in 2..Len(text) : text[i] = "---"}
         IN IF later = {} THEN NoneText
            ELSE LET fm_text == SubSeq(text, 2, (CHOOSE i \in later : \A j \in later : i <= j) - 1)
                     lines == splitlines(fm_text)
                     hits == {n \in 1..Len(lines) :
                                lines[n] # <<>> /\ lines[n][1] = "checksum:"}
                 IN IF hits = {} THEN NoneText
                    ELSE LET raw == strip(Tail(lines[CHOOSE n \in hits : \A m \in hits : n <= m]))
                         IN IF raw = <<"null">> \/ raw = <<>> THEN NoneText
                            ELSE IF Len(raw) >= 2 /\ raw[1] = "\"" /\ raw[Len(raw)] = "\""
                            THEN SubSeq(raw, 2, Len(raw) - 1)
                            ELSE raw

InitText ==
    /\ PureGen
    /\ pure \in {[kind |-> "page_fields", title |-> t, body |-> b] :
                    t \in FieldValues, b \in PageBodies}

\* Lines 790, 800-809: the page text is written, and read back by the
\* next run's write_page.
WriteAndReadBack ==
    /\ pure.kind = "page_fields"
    /\ LET content == build_front_matter(pure.title, HexDigest) \o <<"\n">> \o pure.body
       IN pure' = [kind |-> "page_text", title |-> pure.title, body |-> pure.body,
                   content |-> content,
                   existing_checksum |-> extract_existing_checksum_text(content)]
    /\ UNCHANGED genVars

NextText == WriteAndReadBack

SpecText == InitText /\ [][NextText]_vars

\* C27: for every document the generator builds, whatever the field
\* values, extract_existing_checksum of the written page text returns the
\* document's checksum.
C27_ChecksumRoundTrip ==
    pure.kind = "page_text" => pure.existing_checksum = HexDigest

\* =====================================================================
\* Recovery after an interrupted run (C28): the generator with a
\* process-level interruption of a write-mode run.  What the interrupted
\* run wrote to disk stays, its unsaved workbook cells are lost.
\* =====================================================================
InitRecovery ==
    /\ \E s \in {[wb |-> Workbook([i \in WorkRows |-> "draft"], [k \in SeriesRows |-> "draft"],
                                  [j \in DetailRows |-> "draft"], [m \in MomentRows |-> "draft"],
                                  {}, {}, AllDateCols, TRUE),
                  files |-> PagesOf({}, {}, {})]} :
         /\ wbDisk = s.wb
         /\ wbCells = s.wb
         /\ sheetRows = s.wb
         /\ fs = s.files
         /\ dirs = {}
    /\ args = NoArgs
    /\ pc = "idle"
    /\ idx = 0
    /\ log = EmptyLog
    /\ prev = NoPrev
    /\ runNo = 0
    /\ pure = [kind |-> "recovery", interrupted |-> FALSE, lost |-> {}]

\* The process is killed during a write-mode run (no handler: the spec's
\* "process-level interruption"): the files written so far stay, the
\* cells changed since the last wb.save are gone.  `lost` keeps the draft
\* records whose page this run wrote without saving their status.
Interrupt ==
    /\ pure.kind = "recovery"
    /\ ~pure.interrupted
    /\ pc \in {"works", "series", "series_json", "details_setup", "details",
               "work_json", "moments"}
    /\ args.write
    /\ pure' = [pure EXCEPT
                  !.interrupted = TRUE,
                  !.lost = {rec \in PageRecords :
                              /\ PagePath(rec) \in log.written
                              /\ StatusOf(wbDisk, rec) = "draft"}]
    /\ wbCells' = wbDisk
    /\ sheetRows' = wbDisk
    /\ args' = NoArgs
    /\ log' = EmptyLog
    /\ pc' = "idle"
    /\ UNCHANGED <<wbDisk, fs, dirs, idx, prev, runNo>>

NextRecovery == Next \/ Interrupt

SpecRecovery == InitRecovery /\ [][NextRecovery]_vars

CanonicalIds == {[id |-> i, form |-> "canonical"] : i \in WorkRows}

CanonicalLists == {NotGiven} \cup {Given(S) : S \in SUBSET CanonicalIds}

NumbersOf(scope) ==
    IF scope.given THEN Given({CanonicalNumber(x) : x \in scope.ids}) ELSE NotGiven

InitExplicitScope ==
    /\ PureGen
    /\ pure \in {[kind |-> "scope_run_args", inline |-> l, file |-> f,
                  status |-> st, force |-> fo] :
                    l \in CanonicalLists, f \in CanonicalLists,
                    st \in [WorkRows -> {"draft", "published"}], fo \in BOOLEAN}

\* run_draft_pipeline.py, lines 364-367 and 406-412, then the copy stage
\* (write mode, every derivative succeeds) and the generator on the
\* succeeded IDs; generate_work_pages.py, lines 648-656 and 731-737.
ScopedRun(script) ==
    /\ pure.kind = "scope_run_args"
    /\ LET wb == [works |-> [i \in WorkRows |-> [status |-> pure.status[i]]]]
           work_filter == NumbersOf(pipeline_work_filter(pure.inline, pure.file))
           draft_ids == collect_draft_ids(wb, work_filter, pure.force /\ work_filter.given)
           copied_ids == copied_manifest(draft_ids, {WorkIdOf(i) : i \in WorkRows})
           selected == IF script = "pipeline" THEN Given(copied_ids)
                       ELSE NumbersOf(generator_work_scope(pure.inline, pure.file))
           pages == {WorkIdOf(i) : i \in {w \in WorkRows :
                        /\ InScope(selected, WorkIdOf(w))
                        /\ is_actionable_status(normalize_status(pure.status[w]), pure.force)}}
       IN pure' = [kind |-> "scope_run", script |-> script,
                   inline |-> pure.inline, file |-> pure.file,
                   status |-> pure.status, force |-> pure.force,
                   copied |-> IF script = "pipeline" THEN copied_ids ELSE {},
                   written |-> pages]
    /\ UNCHANGED genVars

NextExplicitScope == \E script \in {"pipeline", "generator"} : ScopedRun(script)

SpecExplicitScope == InitExplicitScope /\ [][NextExplicitScope]_vars

\* The work IDs an explicit scope lists.
ListedIds(inline, file) ==
    {CanonicalNumber(x) : x \in inline.ids \cup file.ids}

\* C30: when an explicit work-ID scope is given to the orchestrator or to
\* the generator (inline list or ID file, also a file without IDs), no
\* work outside the listed IDs has its media copied or its page written.
C30_ExplicitScopeNeverWidens ==
    (pure.kind = "scope_run" /\ (pure.inline.given \/ pure.file.given))
    => pure.copied \cup pure.written \subseteq ListedIds(pure.inline, pure.file)

====
